---- MODULE Spec2Model ----
(***************************************************************************)
(* Model of the cache manager of src/server.js (school-backend): the       *)
(* download-then-parse rebuild (downloadICS, fetchAndRebuildCache,         *)
(* parseICSFileStreaming, expandEvent), its three triggers (initial build, *)
(* backgroundRefresh timer, staleness check of GET /events) and the        *)
(* request handlers that read the published cache.                         *)
(*                                                                         *)
(* One action is one run-to-completion segment of the JavaScript code:     *)
(* the statements between two awaits.  Time is in milliseconds, as         *)
(* Date.now() gives it; texts are sequences of one-character strings.      *)
(***************************************************************************)
EXTENDS Integers, Sequences, FiniteSets, Bags, TLC

(* ------------------------------ bounds -------------------------------- *)
\* number of fetchAndRebuildCache calls a behaviour starts after the
\* initial one
MaxStarted == 2
\* the clock stops MaxTicks times TickMs after the start
MaxTicks == 2
\* length of the texts unescapeICSText is evaluated on
MaxTextLen == 3

(* ------------------------- program constants -------------------------- *)
REFRESH_MS == 600000
INITIAL_RETRY_MS == 30000
STALE_MS == 900000
DOWNLOAD_TRIES == 2
DOWNLOAD_RETRY_WAIT_MS == 2000
WINDOW_DAYS == 3
HourMs == 60 * 60 * 1000
DayMs == 24 * HourMs
\* process.env.TZ = 'Europe/Rome': local time = UTC + 1 h (winter time)
TZ_OFFSET_MS == 1 * HourMs
\* granularity of the clock: Date.now() is read in steps of one refresh
\* period; the clock value now stands for the instants from now to
\* now + TickMs - 1
TickMs == REFRESH_MS
\* the day the process starts on (days since the epoch of the clock)
StartDay == 8
\* start of the process: 12:00 local time of StartDay
StartTime == StartDay * DayMs + 12 * HourMs - TZ_OFFSET_MS
MaxTime == StartTime + MaxTicks * TickMs

(* ------------------------------- dates -------------------------------- *)
\* Europe/Rome: the local date on which summer time starts (the clock jumps
\* from 02:00 to 03:00), and the instant of the jump, 01:00 UTC
DstDay == StartDay + 7
DstStart == DstDay * DayMs + 1 * HourMs
\* the offset of local time from UTC at the instant t
Offset(t) == IF t < DstStart THEN TZ_OFFSET_MS ELSE TZ_OFFSET_MS + HourMs
\* the wall clock at the instant t, as milliseconds from the local epoch
LocalClock(t) == t + Offset(t)
\* new Date(y, m, d, h, mi, s): the instant at which the wall clock shows w;
\* a time of the skipped hour is taken with the offset before the jump
FromLocal(w) ==
  IF w - (TZ_OFFSET_MS + HourMs) >= DstStart THEN w - (TZ_OFFSET_MS + HourMs)
  ELSE w - TZ_OFFSET_MS

\* new Date(t).toISOString().split('T')[0]: the UTC calendar date of t
ISODate(t) == t \div DayMs
\* the local calendar date of t (getFullYear/getMonth/getDate)
LocalDate(t) == LocalClock(t) \div DayMs
\* the local time of day of t (getHours/getMinutes/getSeconds)
LocalTod(t) == LocalClock(t) % DayMs
\* new Date(y, m, d): local midnight of a local calendar date
LocalMidnight(d) == FromLocal(d * DayMs)

\* the value of a DTSTART, DTEND, EXDATE or RDATE line: its date and time
\* fields, whether it ends in Z, whether it has eight digits only, whether
\* its digits are garbled, and whether the line is there at all
NoDate == [date |-> 0, tod |-> 0, utc |-> FALSE, dateOnly |-> FALSE, garbled |-> FALSE,
           present |-> FALSE]
TimedLocal(d, tod) == [date |-> d, tod |-> tod, utc |-> FALSE, dateOnly |-> FALSE,
                       garbled |-> FALSE, present |-> TRUE]
TimedUTC(d, tod) == [date |-> d, tod |-> tod, utc |-> TRUE, dateOnly |-> FALSE,
                     garbled |-> FALSE, present |-> TRUE]
DateOnly(d) == [date |-> d, tod |-> 0, utc |-> FALSE, dateOnly |-> TRUE,
                garbled |-> FALSE, present |-> TRUE]
Garbled == [date |-> 0, tod |-> 0, utc |-> FALSE, dateOnly |-> FALSE, garbled |-> TRUE,
            present |-> TRUE]

\* parseICSDate: the instant a value denotes and its all-day mark; an absent
\* value gives null (ok = FALSE), garbled digits give an Invalid Date (nan)
parseICSDate(v, isValueDate) ==
  IF ~v.present THEN [ok |-> FALSE, nan |-> FALSE, t |-> 0, isAllDay |-> FALSE]
  ELSE IF v.garbled
       THEN [ok |-> TRUE, nan |-> TRUE, t |-> 0, isAllDay |-> v.dateOnly \/ isValueDate]
  ELSE IF v.dateOnly \/ isValueDate
       THEN [ok |-> TRUE, nan |-> FALSE, t |-> FromLocal(v.date * DayMs + 12 * HourMs),
             isAllDay |-> TRUE]
  ELSE IF v.utc
       THEN [ok |-> TRUE, nan |-> FALSE, t |-> v.date * DayMs + v.tod, isAllDay |-> FALSE]
  ELSE [ok |-> TRUE, nan |-> FALSE, t |-> FromLocal(v.date * DayMs + v.tod),
        isAllDay |-> FALSE]

(* ------------------------------- texts -------------------------------- *)
UpperDigit == {"A", "B", "C", "3", "4"}
WordChar == UpperDigit \cup {"a", "b", "x", "n"}

RECURSIVE unescapePair(_, _, _)
\* one pass of text.replace(/\\<c>/g, r) over a sequence of characters
unescapePair(text, c, r) ==
  IF Len(text) = 0 THEN <<>>
  ELSE IF Len(text) >= 2 /\ text[1] = "\\" /\ text[2] = c
       THEN <<r>> \o unescapePair(SubSeq(text, 3, Len(text)), c, r)
  ELSE <<text[1]>> \o unescapePair(Tail(text), c, r)

\* unescapeICSText: the four replacements, in the order of the code
unescapeICSText(text) ==
  unescapePair(unescapePair(unescapePair(unescapePair(text, "n", "\n"), ",", ","), ";", ";"), "\\", "\\")

\* length of the run of word characters at the head of text
RECURSIVE WordRun(_)
WordRun(text) ==
  IF Len(text) = 0 \/ text[1] \notin WordChar THEN 0
  ELSE 1 + WordRun(Tail(text))

RECURSIVE SectionMatches(_)
\* text.match(/\b[0-9A-Z]+\b/g): the maximal words made of upper-case letters
\* and digits only, in order of appearance
SectionMatches(text) ==
  IF Len(text) = 0 THEN <<>>
  ELSE IF text[1] \notin WordChar THEN SectionMatches(Tail(text))
  ELSE LET n == WordRun(text)
           w == SubSeq(text, 1, n)
           rest == SectionMatches(SubSeq(text, n + 1, Len(text)))
       IN IF \A i \in 1..n : w[i] \in UpperDigit THEN <<w>> \o rest ELSE rest

\* text.includes(s)
Includes(text, s) ==
  \E i \in 1..(Len(text) - Len(s) + 1) : SubSeq(text, i, i + Len(s) - 1) = s

(* --------------------------- the calendar ----------------------------- *)
\* the value of an RRULE line: a rule that repeats every period days,
\* count times; valid = FALSE is a value the rule parser rejects
NoRule == [present |-> FALSE, valid |-> FALSE, period |-> 0, count |-> 0]
BadRule == [present |-> TRUE, valid |-> FALSE, period |-> 0, count |-> 0]
Rule(period, count) == [present |-> TRUE, valid |-> TRUE, period |-> period, count |-> count]

\* a VEVENT as the record builder hands it to expandEvent; uid "" and
\* present = FALSE stand for a property the VEVENT does not have
Event(uid, start, end, summary, description) ==
  [uid |-> uid, start |-> start, startIsValueDate |-> start.dateOnly,
   end |-> end, endIsValueDate |-> end.dateOnly,
   summary |-> summary, description |-> description,
   rrule |-> NoRule, exdates |-> <<>>, rdates |-> <<>>]

\* the VEVENT with RRULE, EXDATE and RDATE lines
Recurring(event, rrule, exdates, rdates) ==
  [event EXCEPT !.rrule = rrule, !.exdates = exdates, !.rdates = rdates]

EvToday3B == Event("u1", TimedLocal(StartDay, 9 * HourMs), TimedLocal(StartDay, 10 * HourMs),
                   <<"3", "B", " ", "3", "B">>, <<"a", "x">>)
EvTodayNoUid == Event("", TimedLocal(StartDay, 11 * HourMs), NoDate,
                      <<"4", "A", "\\", ",", "C">>, <<>>)
EvTomorrow == Event("u2", TimedUTC(StartDay + 1, 8 * HourMs), NoDate, <<"3", "B">>, <<>>)
EvAllDay == Event("u3", DateOnly(StartDay), DateOnly(StartDay + 1), <<"4", "A">>, <<"C">>)
EvLastWeek == Event("u4", TimedLocal(StartDay - 7, 9 * HourMs), NoDate, <<"3", "B">>, <<>>)
EvNoStart == Event("u5", NoDate, NoDate, <<"3", "B">>, <<>>)

\* the contents the remote calendar can have: sequences of VEVENTs
Sources ==
  { <<EvTodayNoUid, EvToday3B>>,
    <<EvAllDay, EvTomorrow>>,
    <<EvLastWeek, EvNoStart>> }

(* ---------------------------- expandEvent ----------------------------- *)
\* currentEvent.uid || `event-${Date.now()}`
EventId(uid, clock) ==
  IF uid # "" THEN [uid |-> uid, ts |-> 0] ELSE [uid |-> "event", ts |-> clock]

\* `${currentEvent.uid || 'recurring'}-${correctStart.getTime()}`
RecurringId(uid, ts) ==
  [uid |-> IF uid # "" THEN uid ELSE "recurring", ts |-> ts]

\* rrulestr throws: the RRULE value is malformed, or the DTSTART value put
\* into the rule string is
RRuleThrows(currentEvent) ==
  ~currentEvent.rrule.valid \/ currentEvent.start.garbled

\* the times the rule generates, as the rrule library holds them: a time is
\* the UTC instant whose fields are the wall-clock fields of the time in
\* the rule's zone ("floating" time); the rule is anchored at the fields of
\* the DTSTART value
RuleTimes(currentEvent) ==
  {(currentEvent.start.date + k * currentEvent.rrule.period) * DayMs + currentEvent.start.tod :
     k \in 0..(currentEvent.rrule.count - 1)}

\* the dates handed to rruleSet.exdate and rruleSet.rdate: parseICSDate of
\* each value
SetDates(values) ==
  {parseICSDate(values[i], FALSE).t :
     i \in {j \in 1..Len(values) : values[j].present /\ ~values[j].garbled}}

\* rruleSet.between(after, before, true): the rule's times and the rdates
\* that are no exdate, from after to before inclusive
Between(currentEvent, after, before) ==
  {t \in (RuleTimes(currentEvent) \cup SetDates(currentEvent.rdates))
            \ SetDates(currentEvent.exdates) :
     after <= t /\ t <= before}

\* a set of instants in ascending order
RECURSIVE Ascending(_)
Ascending(S) ==
  IF S = {} THEN <<>>
  ELSE LET m == CHOOSE x \in S : \A y \in S : x <= y
       IN <<m>> \o Ascending(S \ {m})

\* SetHours that leaves the time as between() returned it
SetHoursOmitted(t, tod) == t

\* correctStart.setHours(h, m, s): the local date of t at the time of day tod
SetHours(t, tod) == FromLocal(LocalDate(t) * DayMs + tod)

\* AllDayInRange comparing the timestamps themselves
AllDayInRangeByInstant(startDate, rangeStart, rangeEnd) ==
  startDate >= rangeStart /\ startDate < rangeEnd

\* the range test of an all-day record: startDateOnly >= rangeStartOnly &&
\* startDateOnly < rangeEndOnly, each the local midnight of its date
AllDayInRange(startDate, rangeStart, rangeEnd) ==
  LET startDateOnly == LocalMidnight(LocalDate(startDate))
      rangeStartOnly == LocalMidnight(LocalDate(rangeStart))
      rangeEndOnly == LocalMidnight(LocalDate(rangeEnd))
  IN startDateOnly >= rangeStartOnly /\ startDateOnly < rangeEndOnly

\* the range test of a timed record: startDate >= rangeStart &&
\* startDate < rangeEnd
TimedInRange(startDate, rangeStart, rangeEnd) ==
  startDate >= rangeStart /\ startDate < rangeEnd

\* the single occurrence of the non-recurring branch (endIsValueDate as the
\* record has it) and of the catch block (parseICSDate(end) without it); a
\* comparison with an Invalid Date is false
SingleOccurrence(currentEvent, rangeStart, rangeEnd, clock, endIsValueDate) ==
  LET startDate == parseICSDate(currentEvent.start, currentEvent.startIsValueDate)
      endDate == parseICSDate(currentEvent.end, endIsValueDate)
  IN IF startDate.nan THEN <<>>
     ELSE IF startDate.isAllDay
          THEN IF AllDayInRange(startDate.t, rangeStart, rangeEnd)
               THEN << [id |-> EventId(currentEvent.uid, clock),
                        summary |-> unescapeICSText(currentEvent.summary),
                        description |-> unescapeICSText(currentEvent.description),
                        start |-> LocalDate(startDate.t),
                        end |-> LocalDate(startDate.t),
                        isAllDay |-> TRUE] >>
               ELSE <<>>
     ELSE IF TimedInRange(startDate.t, rangeStart, rangeEnd)
          THEN << [id |-> EventId(currentEvent.uid, clock),
                   summary |-> unescapeICSText(currentEvent.summary),
                   description |-> unescapeICSText(currentEvent.description),
                   start |-> startDate.t,
                   end |-> IF currentEvent.end.present THEN endDate.t ELSE startDate.t,
                   isAllDay |-> FALSE] >>
          ELSE <<>>

\* the occurrences of the RRULE branch: every time between() returns gets
\* the time of day of DTSTART and the duration of the record
RecurringOccurrences(currentEvent, rangeStart, rangeEnd) ==
  LET startDate == parseICSDate(currentEvent.start, currentEvent.startIsValueDate)
      endDate == parseICSDate(currentEvent.end, currentEvent.endIsValueDate)
      duration == IF currentEvent.end.present THEN endDate.t - startDate.t ELSE 0
      occurrences == Ascending(Between(currentEvent, rangeStart, rangeEnd))
  IN [i \in 1..Len(occurrences) |->
        LET correctStart == SetHours(occurrences[i], LocalTod(startDate.t))
        IN [id |-> RecurringId(currentEvent.uid, correctStart),
            summary |-> unescapeICSText(currentEvent.summary),
            description |-> unescapeICSText(currentEvent.description),
            start |-> correctStart,
            end |-> correctStart + duration,
            isRecurring |-> TRUE,
            isAllDay |-> startDate.isAllDay]]

\* expandEvent, evaluated at time clock; an all-day occurrence of a record
\* without RRULE carries its local calendar date as start and end
expandEvent(currentEvent, rangeStart, rangeEnd, clock) ==
  IF ~parseICSDate(currentEvent.start, currentEvent.startIsValueDate).ok THEN <<>>
  ELSE IF ~currentEvent.rrule.present
       THEN SingleOccurrence(currentEvent, rangeStart, rangeEnd, clock,
                             currentEvent.endIsValueDate)
  ELSE IF RRuleThrows(currentEvent)
       THEN SingleOccurrence(currentEvent, rangeStart, rangeEnd, clock, FALSE)
  ELSE RecurringOccurrences(currentEvent, rangeStart, rangeEnd)

(* ----------------------- parseICSFileStreaming ------------------------ *)
\* lastDayBuilt = '': no day built yet
NoDay == -1

\* evt.isAllDay ? evt.start : evt.start.toISOString().split('T')[0]; the
\* start of an all-day occurrence of a recurring record is a Date, which is
\* no date string
OccDate(evt) ==
  IF evt.isAllDay
  THEN (IF "isRecurring" \in DOMAIN evt THEN NoDay ELSE evt.start)
  ELSE ISODate(evt.start)

\* seen.has(s) with the test forgotten: no token counts as seen
SeenNever(seen, s) == FALSE

\* seen.has(s)
SeenHas(seen, s) == s \in seen

RECURSIVE PushSections(_, _, _, _)
\* the loop over matches: evt is pushed once to the bucket of every
\* distinct token
PushSections(bySection, evt, matches, seen) ==
  IF Len(matches) = 0 THEN bySection
  ELSE LET s == matches[1] IN
       IF SeenHas(seen, s) THEN PushSections(bySection, evt, Tail(matches), seen)
       ELSE LET old == IF s \in DOMAIN bySection THEN bySection[s] ELSE <<>>
                new == [k \in (DOMAIN bySection) \cup {s} |->
                          IF k = s THEN Append(old, evt) ELSE bySection[k]]
            IN PushSections(new, evt, Tail(matches), seen \cup {s})

RECURSIVE AddInstances(_, _, _)
\* the loop over the instances of one VEVENT: each goes to recent, and to
\* the section index when its date is todayISO
AddInstances(acc, instances, todayISO) ==
  IF Len(instances) = 0 THEN acc
  ELSE LET evt == instances[1]
           text == evt.summary \o <<" ">> \o evt.description
           idx == IF OccDate(evt) = todayISO
                  THEN PushSections(acc.bySection, evt, SectionMatches(text), {})
                  ELSE acc.bySection
       IN AddInstances([recent |-> Append(acc.recent, evt), bySection |-> idx],
                       Tail(instances), todayISO)

\* ParseEvent with the push to recent forgotten: the instances reach the
\* section index only
ParseEventIndexOnly(acc, currentEvent, today, twoDaysLater, todayISO, clock) ==
  IF currentEvent.start.present
  THEN [recent |-> acc.recent,
        bySection |-> AddInstances(acc, expandEvent(currentEvent, today, twoDaysLater, clock),
                                   todayISO).bySection]
  ELSE acc

\* the END:VEVENT branch for one record: a record without DTSTART is skipped
ParseEvent(acc, currentEvent, today, twoDaysLater, todayISO, clock) ==
  IF currentEvent.start.present
  THEN AddInstances(acc, expandEvent(currentEvent, today, twoDaysLater, clock), todayISO)
  ELSE acc

EmptyIndex == [k \in {} |-> <<>>]

(* ------------------------------- state -------------------------------- *)
VARIABLES
  now,            \* Date.now()
  source,         \* what the calendar URL serves
  calls,          \* the executions of fetchAndRebuildCache that are in
                  \* flight: a bag of their local states
  started,        \* number of calls started after the initial one
  files,          \* the temp directory: the names of the files in it
  timer,          \* due time of the pending setTimeout(backgroundRefresh)
  cachedRecent, recentBuiltAt, cachedByDay, lastDayBuilt, cacheStatus,
  writer,         \* for each cache variable, the download number of the
                  \* call that assigned it last (0: never assigned); see
                  \* NextOrder
  ended,          \* the call that returned or threw in the step just taken
  resp,           \* the response sent by the step just taken
  input,          \* the arguments of a function that is evaluated on its own
  output,         \* what the function returned for input
  cachedEvents, lastFetchDay,
                  \* the cache of the day-keyed variant of the server
  fetches,        \* its executions of fetchICS that are in flight
  answer,         \* the response its GET /events sent in the step just taken
  lastSentEventIds,
                  \* the ids of the events the realtime checks have notified
  checks,         \* the executions of checkAndSendRealTimeNotifications
                  \* that are in flight
  sent,           \* the notifications handed to the push service, in order
  jobs,           \* the executions of runMorningJobs that are in flight
  digestRuns      \* the hours sendDailyDigestNotifications has run for today

cache == <<cachedRecent, recentBuiltAt, cachedByDay, lastDayBuilt>>
vars == <<now, source, calls, started, files, timer,
          cachedRecent, recentBuiltAt, cachedByDay, lastDayBuilt, cacheStatus,
          writer, ended, resp, input, output,
          cachedEvents, lastFetchDay, fetches, answer,
          lastSentEventIds, checks, sent, jobs, digestRuns>>
\* the state of the server, and the evaluation of a function on its own
server == <<now, source, calls, started, files, timer,
            cachedRecent, recentBuiltAt, cachedByDay, lastDayBuilt, cacheStatus,
            writer, ended, resp>>
evaluation == <<input, output>>
\* the state of the other variants of the server
keyed == <<cachedEvents, lastFetchDay, fetches, answer>>
notify == <<lastSentEventIds, checks, sent, jobs, digestRuns>>
variants == <<keyed, notify>>
NoInput == <<>>
NoOutput == [done |-> FALSE, threw |-> FALSE, value |-> <<>>]

\* the day-keyed variant at module load: cachedEvents = {}, lastFetchDay = ''
NoAnswer == [status |-> 0, section |-> <<>>, today |-> -1, body |-> <<>>]
KeyedOff ==
  /\ cachedEvents = [k \in {} |-> <<>>]
  /\ lastFetchDay = NoDay
  /\ fetches = {}
  /\ answer = NoAnswer
\* the notification jobs at module load: lastSentEventIds = new Set()
NotifyOff ==
  /\ lastSentEventIds = {}
  /\ checks = {}
  /\ sent = <<>>
  /\ jobs = {}
  /\ digestRuns = {}
\* no other variant is running
VariantsOff == KeyedOff /\ NotifyOff

NoTimer == -1
NoSection == <<>>
NoResp == [route |-> "none", section |-> NoSection, date |-> NoDay,
           status |-> 0, cache |-> "", body |-> <<>>]
NoEnd == [trigger |-> "none", failure |-> "none", published |-> FALSE,
          parsed |-> 0, follows |-> FALSE]

\* the calls in flight, and how many they are
Calls == BagToSet(calls)
NumInFlight == BagCardinality(calls)
\* the model can follow one more call
CanStart == started < MaxStarted

\* the first segment of fetchAndRebuildCache: downloadICS names its temp
\* file after Date.now() and sends the first request; follows tells whether
\* the snapshot that is published now is still the published one
StartCall(trigger) ==
  [pc |-> "request", trigger |-> trigger, tempFile |-> now, i |-> 0,
   waitUntil |-> 0, order |-> 0, follows |-> writer.recent # 0, pos |-> 0,
   todayISO |-> 0, today |-> 0, recent |-> <<>>, bySection |-> EmptyIndex]

\* the call c goes on as d; a new call d starts
Goes(c, d) == calls' = (calls (-) SetToBag({c})) (+) SetToBag({d})
Starts(d) == calls' = calls (+) SetToBag({d})

\* the number of the next download: downloads are numbered in the order in
\* which they are answered; a number is free again when its download is
\* neither held by a call in flight nor published
NextOrder ==
  LET live == {writer.recent} \cup {c.order : c \in Calls}
  IN 1 + CHOOSE n \in live : \A m \in live : m <= n

\* the calls other than c, after c has published: the snapshot that was
\* published when they started is replaced
Overtaken(c) ==
  LET rest == calls (-) SetToBag({c})
      kept == [e \in {x \in BagToSet(rest) : ~x.follows} |-> rest[e]]
      moved == [d \in {[x EXCEPT !.follows = FALSE] : x \in {y \in BagToSet(rest) : y.follows}} |->
                  rest[[d EXCEPT !.follows = TRUE]]]
  IN kept (+) moved

Init ==
  /\ now = StartTime
  /\ source \in Sources
  /\ started = 0
  /\ files = {}
  /\ timer = NoTimer
  /\ cachedRecent = <<>>
  /\ recentBuiltAt = 0
  /\ cachedByDay = [d \in {} |-> EmptyIndex]
  /\ lastDayBuilt = NoDay
  /\ cacheStatus = "building"
  /\ writer = [recent |-> 0, builtAt |-> 0, byDay |-> 0, lastDay |-> 0]
  \* buildInitialCache runs at module load
  /\ calls = SetToBag({[pc |-> "request", trigger |-> "initial", tempFile |-> StartTime,
                        i |-> 0, waitUntil |-> 0, order |-> 0, follows |-> FALSE, pos |-> 0,
                        todayISO |-> 0, today |-> 0, recent |-> <<>>,
                        bySection |-> EmptyIndex]})
  /\ ended = NoEnd
  /\ resp = NoResp
  /\ input = NoInput
  /\ output = NoOutput
  /\ VariantsOff

(* ------------------------------ the clock ----------------------------- *)
\* the due times of the pending timers: the backgroundRefresh timer and the
\* retry waits of downloadICS
Deadlines ==
  (IF timer = NoTimer THEN {} ELSE {timer})
    \cup {c.waitUntil : c \in {d \in Calls : d.pc = "waiting"}}

\* a timer is due when its due time lies in the current step of the clock
Due(d) == d < now + TickMs

\* time passes; a timer that is due fires before time passes on
Tick ==
  /\ \A d \in Deadlines : ~Due(d)
  /\ now' = now + TickMs
  /\ now' <= MaxTime
  /\ ended' = NoEnd /\ resp' = NoResp
  /\ UNCHANGED <<source, calls, started, files, timer,
                 cachedRecent, recentBuiltAt, cachedByDay, lastDayBuilt,
                 cacheStatus, writer>>
  /\ UNCHANGED <<evaluation, variants>>

(* ----------------------- the callers of a rebuild --------------------- *)
\* StatusAfter of a backgroundRefresh that goes back to 'building' when its
\* rebuild fails
StatusAfterBackToBuilding(trigger, ok) ==
  IF trigger = "initial" THEN (IF ok THEN "ready" ELSE "error")
  ELSE IF trigger = "refresh" THEN (IF ok THEN "ready" ELSE "building")
  ELSE cacheStatus

\* what the caller's continuation assigns to cacheStatus when the call it
\* awaited has finished: buildInitialCache and backgroundRefresh set 'ready'
\* or 'error'; the staleness rebuild of GET /events has an empty catch
StatusAfter(trigger, ok) ==
  IF trigger \in {"initial", "refresh"}
  THEN (IF ok THEN "ready" ELSE "error")
  ELSE cacheStatus

\* TimerAfter of a buildInitialCache that schedules backgroundRefresh in its
\* try block only
TimerAfterSuccessOnly(trigger, ok) ==
  IF trigger = "initial" THEN (IF ok THEN now + REFRESH_MS ELSE timer)
  ELSE IF trigger = "refresh" THEN now + REFRESH_MS
  ELSE timer

\* the setTimeout(backgroundRefresh, ...) of the caller's continuation
TimerAfter(trigger, ok) ==
  IF trigger = "initial" THEN now + (IF ok THEN REFRESH_MS ELSE INITIAL_RETRY_MS)
  ELSE IF trigger = "refresh" THEN now + REFRESH_MS
  ELSE timer

\* the call returns (failure = "none") or throws, and its caller goes on
Finish(c, failure, published) ==
  /\ calls' = IF published THEN Overtaken(c) ELSE calls (-) SetToBag({c})
  /\ ended' = [trigger |-> c.trigger, failure |-> failure,
               published |-> published, parsed |-> Len(c.recent),
               follows |-> c.follows]
  /\ cacheStatus' = StatusAfter(c.trigger, failure = "none")
  /\ timer' = TimerAfter(c.trigger, failure = "none")

(* ----------------------------- downloadICS ---------------------------- *)
\* axios answers: createWriteStream creates (or truncates) the temp file and
\* the body starts to be piped into it
Response(c) ==
  /\ c.pc = "request"
  /\ Goes(c, [c EXCEPT !.pc = "writing", !.order = NextOrder])
  /\ files' = files \cup {c.tempFile}
  /\ ended' = NoEnd /\ resp' = NoResp
  /\ UNCHANGED <<now, source, started, timer,
                 cachedRecent, recentBuiltAt, cachedByDay, lastDayBuilt,
                 cacheStatus, writer>>
  /\ UNCHANGED <<evaluation, variants>>

\* DownloadFail without the unlink of the catch block
DownloadFailLeak(c) ==
  /\ c.pc \in {"request", "writing"}
  /\ files' = files
  /\ IF c.i < DOWNLOAD_TRIES - 1
     THEN /\ Goes(c, [c EXCEPT !.pc = "waiting", !.order = 0,
                               !.waitUntil = now + DOWNLOAD_RETRY_WAIT_MS])
          /\ ended' = NoEnd
          /\ UNCHANGED <<cacheStatus, timer>>
     ELSE Finish(c, "download", FALSE)
  /\ resp' = NoResp
  /\ UNCHANGED <<now, source, started,
                 cachedRecent, recentBuiltAt, cachedByDay, lastDayBuilt, writer>>
  /\ UNCHANGED <<evaluation, variants>>

\* the catch block of one attempt (the request failed, or the stream broke
\* while the body was being written): the temp file is removed, then the
\* function waits for the retry or, after the last attempt, throws
DownloadFail(c) ==
  /\ c.pc \in {"request", "writing"}
  /\ files' = files \ {c.tempFile}
  /\ IF c.i < DOWNLOAD_TRIES - 1
     THEN /\ Goes(c, [c EXCEPT !.pc = "waiting", !.order = 0,
                               !.waitUntil = now + DOWNLOAD_RETRY_WAIT_MS])
          /\ ended' = NoEnd
          /\ UNCHANGED <<cacheStatus, timer>>
     ELSE Finish(c, "download", FALSE)
  /\ resp' = NoResp
  /\ UNCHANGED <<now, source, started,
                 cachedRecent, recentBuiltAt, cachedByDay, lastDayBuilt, writer>>
  /\ UNCHANGED <<evaluation, variants>>

\* the 2 s wait is over: next attempt
Retry(c) ==
  /\ c.pc = "waiting"
  /\ Due(c.waitUntil)
  /\ Goes(c, [c EXCEPT !.pc = "request", !.i = c.i + 1, !.waitUntil = 0])
  /\ ended' = NoEnd /\ resp' = NoResp
  /\ UNCHANGED <<now, source, started, files, timer,
                 cachedRecent, recentBuiltAt, cachedByDay, lastDayBuilt,
                 cacheStatus, writer>>
  /\ UNCHANGED <<evaluation, variants>>

\* the writer finishes and downloadICS returns the path;
\* parseICSFileStreaming starts, fixes its 'today' and opens the file; a
\* file that is gone makes the for-await loop throw, and the catch block of
\* fetchAndRebuildCache rethrows
WriteFinish(c) ==
  /\ c.pc = "writing"
  /\ files' = files
  /\ IF c.tempFile \in files
     THEN /\ Goes(c, [c EXCEPT !.pc = "parsing",
                               !.todayISO = ISODate(now),
                               !.today = LocalMidnight(LocalDate(now))])
          /\ ended' = NoEnd
          /\ UNCHANGED <<cacheStatus, timer>>
     ELSE Finish(c, "parse", FALSE)
  /\ resp' = NoResp
  /\ UNCHANGED <<now, source, started,
                 cachedRecent, recentBuiltAt, cachedByDay, lastDayBuilt, writer>>
  /\ UNCHANGED <<evaluation, variants>>

(* ------------------------ fetchAndRebuildCache ------------------------ *)
\* Publish with an await after the second assignment: this segment assigns
\* cachedRecent and recentBuiltAt only
PublishFieldwise(c) ==
  /\ cachedRecent' = c.recent
  /\ recentBuiltAt' = now
  /\ UNCHANGED <<cachedByDay, lastDayBuilt>>
  /\ writer' = [writer EXCEPT !.recent = c.order, !.builtAt = c.order]

\* the four assignments after a complete parse; no await stands between them
Publish(c) ==
  /\ cachedRecent' = c.recent
  /\ recentBuiltAt' = now
  /\ cachedByDay' = [d \in {ISODate(now)} |-> c.bySection]
  /\ lastDayBuilt' = ISODate(now)
  /\ writer' = [recent |-> c.order, builtAt |-> c.order,
                byDay |-> c.order, lastDay |-> c.order]

\* ParseStep of a parser that does not recover from a VEVENT whose DTSTART
\* is missing or does not parse: the loop throws at it
ParseStepThrowing(c) ==
  /\ c.pc = "parsing"
  /\ c.pos < Len(source)
  /\ IF ~source[c.pos + 1].start.present \/ source[c.pos + 1].start.garbled
     THEN /\ files' = files \ {c.tempFile}
          /\ Finish(c, "parse", FALSE)
     ELSE /\ LET acc == ParseEvent([recent |-> c.recent, bySection |-> c.bySection],
                                   source[c.pos + 1],
                                   c.today, c.today + WINDOW_DAYS * DayMs,
                                   c.todayISO, now)
             IN Goes(c, [c EXCEPT !.pos = c.pos + 1, !.recent = acc.recent,
                                  !.bySection = acc.bySection])
          /\ ended' = NoEnd
          /\ UNCHANGED <<files, timer, cacheStatus>>
  /\ resp' = NoResp
  /\ UNCHANGED <<now, source, started,
                 cachedRecent, recentBuiltAt, cachedByDay, lastDayBuilt, writer>>
  /\ UNCHANGED <<evaluation, variants>>

\* one VEVENT of the file is read and expanded into the call's local
\* recent and bySection
ParseStep(c) ==
  /\ c.pc = "parsing"
  /\ c.pos < Len(source)
  /\ LET acc == ParseEvent([recent |-> c.recent, bySection |-> c.bySection],
                           source[c.pos + 1],
                           c.today, c.today + WINDOW_DAYS * DayMs,
                           c.todayISO, now)
     IN Goes(c, [c EXCEPT !.pos = c.pos + 1, !.recent = acc.recent,
                          !.bySection = acc.bySection])
  /\ ended' = NoEnd /\ resp' = NoResp
  /\ UNCHANGED <<now, source, started, files, timer,
                 cachedRecent, recentBuiltAt, cachedByDay, lastDayBuilt,
                 cacheStatus, writer>>
  /\ UNCHANGED <<evaluation, variants>>

\* ParseError of a parser that fills the published cache in place: what has
\* been parsed so far is visible when the read fails
ParseErrorPublishing(c) ==
  /\ c.pc = "parsing"
  /\ files' = files \ {c.tempFile}
  /\ Finish(c, "parse", FALSE)
  /\ resp' = NoResp
  /\ Publish(c)
  /\ UNCHANGED <<now, source, started>>
  /\ UNCHANGED <<evaluation, variants>>

\* reading the file fails partway: the catch block removes the temp file and
\* rethrows; nothing is assigned to the cache
ParseError(c) ==
  /\ c.pc = "parsing"
  /\ files' = files \ {c.tempFile}
  /\ Finish(c, "parse", FALSE)
  /\ resp' = NoResp
  /\ UNCHANGED <<now, source, started,
                 cachedRecent, recentBuiltAt, cachedByDay, lastDayBuilt, writer>>
  /\ UNCHANGED <<evaluation, variants>>

\* the file is read to its end: the snapshot is published and the temp file
\* removed; unlinkSync throws when the file is already gone, and the call
\* then ends in the catch block although it has published
ParseEnd(c) ==
  /\ c.pc = "parsing"
  /\ c.pos = Len(source)
  /\ Publish(c)
  /\ files' = files \ {c.tempFile}
  /\ IF c.tempFile \in files
     THEN Finish(c, "none", TRUE)
     ELSE Finish(c, "cleanup", TRUE)
  /\ resp' = NoResp
  /\ UNCHANGED <<now, source, started>>
  /\ UNCHANGED <<evaluation, variants>>

(* --------------------------- backgroundRefresh ------------------------ *)
\* the timer fires: backgroundRefresh calls fetchAndRebuildCache
TimerFire ==
  /\ timer # NoTimer
  /\ Due(timer)
  /\ CanStart
  /\ Starts(StartCall("refresh"))
  /\ started' = started + 1
  /\ timer' = NoTimer
  /\ ended' = NoEnd /\ resp' = NoResp
  /\ UNCHANGED <<now, source, files,
                 cachedRecent, recentBuiltAt, cachedByDay, lastDayBuilt,
                 cacheStatus, writer>>
  /\ UNCHANGED <<evaluation, variants>>

(* ---------------------------- the endpoints --------------------------- *)
\* the query strings of GET /events: none, ?section=3B, ?section=3B&date=
\* (a date without section is ignored by the handler)
Queries == {<<NoSection, NoDay>>, <<<<"3", "B">>, NoDay>>, <<<<"3", "B">>, StartDay>>}

\* the filter of the section+date form
MatchesSectionDate(e, section, date) ==
  /\ OccDate(e) = date
  /\ Includes(e.summary \o <<" ">> \o e.description, section)

\* cachedByDay[todayISO] || cachedByDay[lastDayBuilt] || {}, then
\* bySection[section] || []
SectionBucket(todayISO, section) ==
  LET bySection == IF todayISO \in DOMAIN cachedByDay THEN cachedByDay[todayISO]
                   ELSE IF lastDayBuilt \in DOMAIN cachedByDay THEN cachedByDay[lastDayBuilt]
                   ELSE EmptyIndex
  IN IF section \in DOMAIN bySection THEN bySection[section] ELSE <<>>

\* the body of a 200 response of GET /events
EventsBody(section, date) ==
  IF section # NoSection /\ date # NoDay
  THEN LET Keep(e) == MatchesSectionDate(e, section, date)
       IN SelectSeq(cachedRecent, Keep)
  ELSE IF section # NoSection
  THEN SectionBucket(ISODate(now), section)
  ELSE cachedRecent

\* the staleness test of GET /events
IsStale == now - recentBuiltAt > STALE_MS

\* the 'not ready' test of GET /events
NotReady == cacheStatus = "building" /\ Len(cachedRecent) = 0

\* GET /events whose staleness rebuild empties the recent list before it
\* downloads: the response is computed from the emptied list
GetEventsAfterReset(section, date) ==
  /\ IF NotReady
     THEN /\ resp' = [route |-> "events", section |-> section, date |-> date,
                      status |-> 503, cache |-> cacheStatus, body |-> <<>>]
          /\ UNCHANGED <<calls, started, cachedRecent>>
     ELSE IF IsStale
     THEN /\ CanStart
          /\ Starts(StartCall("query"))
          /\ started' = started + 1
          /\ cachedRecent' = <<>>
          /\ resp' = [route |-> "events", section |-> section, date |-> date,
                      status |-> 200, cache |-> "",
                      body |-> IF section # NoSection /\ date = NoDay
                               THEN SectionBucket(ISODate(now), section) ELSE <<>>]
     ELSE /\ UNCHANGED <<calls, started, cachedRecent>>
          /\ resp' = [route |-> "events", section |-> section, date |-> date,
                      status |-> 200, cache |-> "",
                      body |-> EventsBody(section, date)]
  /\ ended' = NoEnd
  /\ UNCHANGED <<now, source, files, timer,
                 recentBuiltAt, cachedByDay, lastDayBuilt,
                 cacheStatus, writer>>
  /\ UNCHANGED <<evaluation, variants>>

\* GET /events: 503 while not ready; otherwise a stale cache starts a
\* rebuild that is not awaited, and the response is computed from the cache
\* as it is
GetEvents(section, date) ==
  /\ IF NotReady
     THEN /\ resp' = [route |-> "events", section |-> section, date |-> date,
                      status |-> 503, cache |-> cacheStatus, body |-> <<>>]
          /\ UNCHANGED <<calls, started>>
     ELSE /\ IF IsStale
             THEN /\ CanStart
                  /\ Starts(StartCall("query"))
                  /\ started' = started + 1
             ELSE UNCHANGED <<calls, started>>
          /\ resp' = [route |-> "events", section |-> section, date |-> date,
                      status |-> 200, cache |-> "",
                      body |-> EventsBody(section, date)]
  /\ ended' = NoEnd
  /\ UNCHANGED <<now, source, files, timer,
                 cachedRecent, recentBuiltAt, cachedByDay, lastDayBuilt,
                 cacheStatus, writer>>
  /\ UNCHANGED <<evaluation, variants>>

\* GET /health
GetHealth ==
  /\ resp' = [route |-> "health", section |-> NoSection, date |-> NoDay,
              status |-> 200, cache |-> cacheStatus,
              body |-> <<Len(cachedRecent)>>]
  /\ ended' = NoEnd
  /\ UNCHANGED <<now, source, calls, started, files, timer,
                 cachedRecent, recentBuiltAt, cachedByDay, lastDayBuilt,
                 cacheStatus, writer>>
  /\ UNCHANGED <<evaluation, variants>>

(* -------------------------- the specification ------------------------- *)
Next ==
  \/ Tick
  \/ TimerFire
  \/ GetHealth
  \/ \E q \in Queries : GetEvents(q[1], q[2])
  \/ \E c \in Calls : Response(c)
  \/ \E c \in Calls : DownloadFail(c)
  \/ \E c \in Calls : Retry(c)
  \/ \E c \in Calls : WriteFinish(c)
  \/ \E c \in Calls : ParseStep(c)
  \/ \E c \in Calls : ParseError(c)
  \/ \E c \in Calls : ParseEnd(c)

Spec == Init /\ [][Next]_vars

\* a step of a call in flight: the download is answered or fails, the pause
\* before the retry ends, the file is written, read, parsed
CallStep ==
  \E c \in Calls :
    \/ Response(c) \/ DownloadFail(c) \/ Retry(c) \/ WriteFinish(c)
    \/ ParseStep(c) \/ ParseError(c) \/ ParseEnd(c)

\* the server without query traffic, with its scheduling: time passes, a
\* timer that is due fires, and every rebuild attempt goes on until it
\* returns or throws
NextQuiet ==
  \/ Tick
  \/ TimerFire
  \/ CallStep

\* the steps of a call other than the reading of a VEVENT
TransferStep ==
  \E c \in Calls :
    \/ Response(c) \/ DownloadFail(c) \/ Retry(c) \/ WriteFinish(c)
    \/ ParseError(c) \/ ParseEnd(c)

\* a VEVENT is left to read, and one is read: ReadsOn is enabled exactly
\* when CanReadOn holds
CanReadOn == \E c \in Calls : c.pc = "parsing" /\ c.pos < Len(source)
ReadsOn == \E c \in Calls : ParseStep(c)

\* weak fairness of the clock, of the timer and of the steps of the calls;
\* the one of ReadsOn is written with CanReadOn for ENABLED <<ReadsOn>>_vars
SpecQuiet ==
  /\ Init /\ [][NextQuiet]_vars
  /\ WF_vars(Tick) /\ WF_vars(TimerFire) /\ WF_vars(TransferStep)
  /\ ([]<>~CanReadOn \/ []<><<ReadsOn>>_vars)

(* ------------------- functions evaluated on their own ----------------- *)
\* the server is not running: no call in flight, nothing published
Off ==
  /\ now = StartTime
  /\ source = <<>>
  /\ calls = EmptyBag
  /\ started = 0
  /\ files = {}
  /\ timer = NoTimer
  /\ cachedRecent = <<>>
  /\ recentBuiltAt = 0
  /\ cachedByDay = [d \in {} |-> EmptyIndex]
  /\ lastDayBuilt = NoDay
  /\ cacheStatus = "building"
  /\ writer = [recent |-> 0, builtAt |-> 0, byDay |-> 0, lastDay |-> 0]
  /\ ended = NoEnd
  /\ resp = NoResp

\* the function returns value
Returns(value) == output' = [done |-> TRUE, threw |-> FALSE, value |-> value]

\* the sequences over S of length n, and of length up to n
RECURSIVE SeqOfLen(_, _)
SeqOfLen(S, n) ==
  IF n = 0 THEN {<<>>}
  ELSE {Append(t, x) : t \in SeqOfLen(S, n - 1), x \in S}
SeqUpTo(S, n) == UNION {SeqOfLen(S, k) : k \in 0..n}

(* --------------------------- unescapeICSText -------------------------- *)
\* the characters of the texts: the four that ICS escapes, the letter n of
\* the escape \n, and another letter
TextChars == {"\\", "\n", ",", ";", "n", "a"}

\* the ICS escaping of a text: backslash first, then newline, comma and
\* semicolon, each character on its own
escapeICSText(text) ==
  IF Len(text) = 0 THEN <<>>
  ELSE LET Esc(c) == IF c = "\\" THEN <<"\\", "\\">>
                     ELSE IF c = "\n" THEN <<"\\", "n">>
                     ELSE IF c = "," THEN <<"\\", ",">>
                     ELSE IF c = ";" THEN <<"\\", ";">>
                     ELSE <<c>>
           Cat[i \in 0..Len(text)] == IF i = 0 THEN <<>> ELSE Cat[i - 1] \o Esc(text[i])
       IN Cat[Len(text)]

InitUnescape ==
  /\ Off
  /\ VariantsOff
  /\ input \in SeqUpTo(TextChars, MaxTextLen)
  /\ output = NoOutput

\* the escaped form of the text is handed to unescapeICSText
Unescape ==
  /\ ~output.done
  /\ Returns(unescapeICSText(escapeICSText(input)))
  /\ UNCHANGED <<server, variants, input>>

NextUnescape == Unescape

SpecUnescape == InitUnescape /\ [][NextUnescape]_vars

(* ------------------------------ expandEvent --------------------------- *)
\* the DTSTART values of the records: on the first day of the range at
\* several times of day, at both ends of the range, before and after it, on
\* the day before the clocks go forward, in UTC form, date-only, garbled,
\* empty
ExpandStarts ==
  { TimedLocal(StartDay, 10 * HourMs), TimedLocal(StartDay, 0),
    TimedLocal(StartDay, 23 * HourMs + HourMs \div 2),
    TimedLocal(StartDay + WINDOW_DAYS, 0),
    TimedLocal(StartDay - 7, 10 * HourMs),
    TimedLocal(DstDay - 1, 2 * HourMs + HourMs \div 2),
    TimedUTC(StartDay, 9 * HourMs),
    DateOnly(StartDay), DateOnly(StartDay + WINDOW_DAYS), DateOnly(StartDay - 1),
    Garbled, NoDate }

\* the DTEND values of a record that starts at start: none, an hour after
\* the start, the day before it
ExpandEnds(start) ==
  { NoDate,
    [start EXCEPT !.tod = IF start.dateOnly THEN 0 ELSE start.tod + HourMs],
    [start EXCEPT !.date = start.date - 1] }

\* whether a DTEND value can carry the VALUE=DATE parameter: a date-only
\* value does, a date-time value may
ExpandEndFlags(end) ==
  IF ~end.present THEN {FALSE} ELSE IF end.dateOnly THEN {TRUE} ELSE BOOLEAN

\* the RRULE values: none, malformed, daily with COUNT=3, and weekly with
\* COUNT=3 for the records that start by the first day of the range
ExpandRules(start) ==
  {NoRule, BadRule, Rule(1, 3)}
    \cup (IF start.garbled \/ start.date > StartDay THEN {} ELSE {Rule(7, 3)})

\* the EXDATE lines of a record: none, or the second instance of its rule
ExpandExdates(start, rrule) ==
  IF rrule.valid
  THEN { <<>>, << [start EXCEPT !.date = start.date + rrule.period] >> }
  ELSE { <<>> }

\* the RDATE lines: none, an afternoon in the range, the end of the range
ExpandRdates(rrule) ==
  IF rrule.valid
  THEN { <<>>,
         << TimedLocal(StartDay, 16 * HourMs) >>,
         << TimedLocal(StartDay + WINDOW_DAYS, 0) >> }
  ELSE { <<>> }

\* the summaries before ICS escaping: a section name, a text with a comma,
\* a text with a backslash before the letter n
ExpandTexts == { <<"3", "B">>, <<"a", ",", "b">>, <<"\\", "n">> }
ExpandDescription == <<"x", "\n">>

\* the records: the DTEND, the EXDATE and the RDATE lines of a record go
\* with its DTSTART and RRULE, its SUMMARY and DESCRIPTION are escaped texts
ExpandRecords ==
  UNION { UNION { UNION {
    { [uid |-> uid, start |-> start, startIsValueDate |-> start.dateOnly,
       end |-> end, endIsValueDate |-> endIsValueDate,
       summary |-> escapeICSText(summary),
       description |-> escapeICSText(ExpandDescription),
       rrule |-> rrule, exdates |-> exdates, rdates |-> rdates] :
        uid \in {"", "u1"}, summary \in ExpandTexts,
        endIsValueDate \in ExpandEndFlags(end),
        exdates \in ExpandExdates(start, rrule),
        rdates \in ExpandRdates(rrule) } :
      rrule \in ExpandRules(start) } :
      end \in ExpandEnds(start) } :
      start \in ExpandStarts }

\* the ranges: from a local midnight or an afternoon, on the first day or
\* two days before the clocks go forward, for three days or until the
\* morning after; and the three weeks around the first day
ExpandRanges ==
  { [rangeStart |-> rangeStart, rangeEnd |-> rangeEnd] :
      rangeStart \in { LocalMidnight(StartDay),
                       LocalMidnight(StartDay) + 15 * HourMs,
                       LocalMidnight(DstDay - 2) },
      rangeEnd \in { LocalMidnight(StartDay + WINDOW_DAYS),
                     LocalMidnight(StartDay + WINDOW_DAYS) + 10 * HourMs,
                     LocalMidnight(DstDay - 2 + WINDOW_DAYS) } }
    \cup { [rangeStart |-> LocalMidnight(StartDay - 7),
            rangeEnd |-> LocalMidnight(StartDay + 8)] }

InitExpand ==
  /\ Off
  /\ VariantsOff
  /\ \E record \in ExpandRecords, range \in ExpandRanges :
       input = [record |-> record, rangeStart |-> range.rangeStart,
                rangeEnd |-> range.rangeEnd]
  /\ output = NoOutput

\* expandEvent(record, rangeStart, rangeEnd) is called
Expand ==
  /\ ~output.done
  /\ Returns(expandEvent(input.record, input.rangeStart, input.rangeEnd, now))
  /\ UNCHANGED <<server, variants, input>>

NextExpand == Expand

SpecExpand == InitExpand /\ [][NextExpand]_vars

(* ------------------------ parseICSFileStreaming ----------------------- *)
\* the VEVENTs of the files: around the day of the rebuild, at several times
\* of day, all-day, recurring, all-day and recurring, with a DTEND before
\* the DTSTART, without DTSTART, with a DTSTART or an RRULE that does not
\* parse
ParseRecords ==
  { Event("p1", TimedLocal(StartDay, HourMs \div 2), NoDate, <<"3", "B">>, <<>>),
    Event("p2", TimedLocal(StartDay, 10 * HourMs), TimedLocal(StartDay, 11 * HourMs),
          <<"3", "B">>, <<"a">>),
    Event("p3", DateOnly(StartDay), DateOnly(StartDay + 1), <<"4", "A">>, <<>>),
    Event("p4", TimedLocal(StartDay + 1, HourMs \div 2), NoDate, <<"3", "B">>, <<>>),
    Event("p5", TimedLocal(StartDay, 10 * HourMs), TimedLocal(StartDay, 9 * HourMs),
          <<"4", "A">>, <<>>),
    Recurring(Event("p6", TimedLocal(StartDay - 1, 10 * HourMs),
                    TimedLocal(StartDay - 1, 11 * HourMs), <<"3", "B">>, <<>>),
              Rule(1, 3), <<>>, <<>>),
    Recurring(Event("p7", TimedLocal(StartDay, 10 * HourMs), NoDate, <<"4", "A">>, <<>>),
              BadRule, <<>>, <<>>),
    Recurring(Event("p10", DateOnly(StartDay), DateOnly(StartDay + 1), <<"3", "B">>, <<>>),
              Rule(1, 3), <<>>, <<>>),
    Event("p11", TimedLocal(StartDay, 10 * HourMs), TimedLocal(StartDay, 11 * HourMs),
          <<"3", "B">>, <<"3", "B", " ", "4", "A", " ", "3", "B">>),
    Recurring(Event("p12", TimedLocal(StartDay, 10 * HourMs),
                    TimedLocal(StartDay, 11 * HourMs), <<"3", "B">>, <<>>),
              Rule(1, 2), <<>>, <<TimedLocal(StartDay, 15 * HourMs)>>),
    Event("", TimedLocal(StartDay, 10 * HourMs), NoDate, <<"3", "B">>, <<>>),
    Event("", TimedLocal(StartDay, 11 * HourMs), NoDate, <<"4", "A">>, <<>>),
    Event("p8", NoDate, NoDate, <<"3", "B">>, <<>>),
    Event("p9", Garbled, NoDate, <<"3", "B">>, <<>>),
    Recurring(Event("", Garbled, TimedLocal(StartDay, 11 * HourMs), <<"3", "B">>, <<>>),
              Rule(1, 3), <<>>, <<>>) }

\* the files: up to MaxFileLen VEVENTs
MaxFileLen == 2
ParseSources == SeqUpTo(ParseRecords, MaxFileLen)

\* the times at which the rebuild runs: half past midnight, noon and half
\* past eleven in the evening, local time
ParseTimes ==
  { FromLocal(StartDay * DayMs + HourMs \div 2),
    FromLocal(StartDay * DayMs + 12 * HourMs),
    FromLocal(StartDay * DayMs + 23 * HourMs + HourMs \div 2) }

\* fetchAndRebuildCache has downloaded the file and parseICSFileStreaming
\* starts: now, todayISO, today are taken
InitParse ==
  /\ now \in ParseTimes
  /\ source \in ParseSources
  /\ started = 1
  /\ files = {now}
  /\ timer = NoTimer
  /\ cachedRecent = <<>>
  /\ recentBuiltAt = 0
  /\ cachedByDay = [d \in {} |-> EmptyIndex]
  /\ lastDayBuilt = NoDay
  /\ cacheStatus = "building"
  /\ writer = [recent |-> 0, builtAt |-> 0, byDay |-> 0, lastDay |-> 0]
  /\ calls = SetToBag({[pc |-> "parsing", trigger |-> "initial", tempFile |-> now,
                        i |-> 0, waitUntil |-> 0, order |-> 1, follows |-> FALSE, pos |-> 0,
                        todayISO |-> ISODate(now), today |-> LocalMidnight(LocalDate(now)),
                        recent |-> <<>>, bySection |-> EmptyIndex]})
  /\ ended = NoEnd
  /\ resp = NoResp
  /\ input = NoInput
  /\ output = NoOutput
  /\ VariantsOff

NextParse ==
  \E c \in Calls :
    \/ ParseStep(c)
    \/ ParseEnd(c)

SpecParse == InitParse /\ [][NextParse]_vars

(* ---------------------- the server over several days ------------------ *)
\* the number of days that pass
MaxDays == 1

\* the files of the calendar: VEVENTs of the night, the morning and the
\* whole of the first day, and of the night after it
EvNight == Event("d1", TimedLocal(StartDay, HourMs \div 2), NoDate, <<"3", "B">>, <<>>)
EvMorning == Event("d2", TimedLocal(StartDay, 10 * HourMs), TimedLocal(StartDay, 11 * HourMs),
                   <<"3", "B", "C">>, <<"3", "B">>)
EvWholeDay == Event("d3", DateOnly(StartDay), DateOnly(StartDay + 1), <<"3", "B">>, <<>>)
EvNextNight == Event("d4", TimedLocal(StartDay + 1, HourMs \div 2), NoDate,
                     <<"a", "3", "B">>, <<>>)
DaySources ==
  { <<EvNight, EvMorning>>, <<EvWholeDay, EvNextNight>>, <<EvMorning, EvNextNight>> }

\* the queries: no parameters, a section, a section nothing is filed under,
\* a section with the first day and with the day after
DayQueries ==
  { <<NoSection, NoDay>>, <<<<"3", "B">>, NoDay>>, <<<<"4", "A">>, NoDay>>,
    <<<<"3", "B">>, StartDay>>, <<<<"3", "B">>, StartDay + 1>> }

\* the first rebuild has downloaded the file and starts to parse it, at one
\* of the times of day
InitDays ==
  /\ now \in ParseTimes
  /\ source \in DaySources
  /\ started = 1
  /\ files = {now}
  /\ timer = NoTimer
  /\ cachedRecent = <<>>
  /\ recentBuiltAt = 0
  /\ cachedByDay = [d \in {} |-> EmptyIndex]
  /\ lastDayBuilt = NoDay
  /\ cacheStatus = "building"
  /\ writer = [recent |-> 0, builtAt |-> 0, byDay |-> 0, lastDay |-> 0]
  /\ calls = SetToBag({[pc |-> "parsing", trigger |-> "initial", tempFile |-> now,
                        i |-> 0, waitUntil |-> 0, order |-> 1, follows |-> FALSE, pos |-> 0,
                        todayISO |-> ISODate(now), today |-> LocalMidnight(LocalDate(now)),
                        recent |-> <<>>, bySection |-> EmptyIndex]})
  /\ ended = NoEnd
  /\ resp = NoResp
  /\ input = NoInput
  /\ output = NoOutput
  /\ VariantsOff

\* a day passes in which the calendar URL does not answer: no call is in
\* flight at its end, every backgroundRefresh of the day has failed
\* (cacheStatus 'error') and has scheduled the next one, which is due
DayPasses ==
  /\ Calls = {}
  /\ timer # NoTimer
  /\ now + DayMs < (StartDay + MaxDays + 1) * DayMs
  /\ now' = now + DayMs
  /\ cacheStatus' = "error"
  /\ timer' = now'
  /\ ended' = NoEnd /\ resp' = NoResp
  /\ UNCHANGED <<source, calls, started, files,
                 cachedRecent, recentBuiltAt, cachedByDay, lastDayBuilt, writer>>
  /\ UNCHANGED <<evaluation, variants>>

NextDays ==
  \/ DayPasses
  \/ TimerFire
  \/ \E q \in DayQueries : GetEvents(q[1], q[2])
  \/ \E c \in Calls : Response(c)
  \/ \E c \in Calls : DownloadFail(c)
  \/ \E c \in Calls : Retry(c)
  \/ \E c \in Calls : WriteFinish(c)
  \/ \E c \in Calls : ParseStep(c)
  \/ \E c \in Calls : ParseError(c)
  \/ \E c \in Calls : ParseEnd(c)

SpecDays == InitDays /\ [][NextDays]_vars

(* ------------------- the lines of a VEVENT ---------------------------- *)
\* a line between BEGIN:VEVENT and END:VEVENT: a property line NAME:value,
\* with or without the parameter VALUE=DATE, or a line that starts with a
\* space or a tab; text is the line without that first character
PropertyLine(name, isValueDate, value) ==
  [continuation |-> FALSE, name |-> name, isValueDate |-> isValueDate, text |-> value]
ContinuationLine(text) ==
  [continuation |-> TRUE, name |-> "", isValueDate |-> FALSE, text |-> text]

\* the fields of currentEvent that hold one value, by property name
FieldOf ==
  [DTSTART |-> "start", DTEND |-> "end", SUMMARY |-> "summary",
   DESCRIPTION |-> "description", UID |-> "uid", RRULE |-> "rrule"]

\* currentEvent = {} and lastProperty = null after BEGIN:VEVENT; a field
\* that is not set reads as the empty text
NoProperty == "null"
NewEvent ==
  [start |-> <<>>, startIsValueDate |-> FALSE, end |-> <<>>, endIsValueDate |-> FALSE,
   summary |-> <<>>, description |-> <<>>, uid |-> <<>>, rrule |-> <<>>,
   exdates |-> <<>>, rdates |-> <<>>]
NewReader == [currentEvent |-> NewEvent, lastProperty |-> NoProperty]

\* the loop body with a last branch that keeps lastProperty: a property the
\* parser does not know leaves the one captured before it open
ReadLineKeepingLast(reader, line) ==
  LET currentEvent == reader.currentEvent
      lastProperty == reader.lastProperty
  IN IF line.continuation
     THEN IF lastProperty # NoProperty /\ currentEvent[lastProperty] # <<>>
          THEN [reader EXCEPT !.currentEvent[lastProperty] =
                                 @ \o unescapePair(line.text, "n", "\n")]
          ELSE reader
     ELSE IF line.name = "DTSTART"
     THEN [currentEvent |-> [currentEvent EXCEPT !.start = line.text,
                                                 !.startIsValueDate = line.isValueDate],
           lastProperty |-> "start"]
     ELSE IF line.name = "DTEND"
     THEN [currentEvent |-> [currentEvent EXCEPT !.end = line.text,
                                                 !.endIsValueDate = line.isValueDate],
           lastProperty |-> "end"]
     ELSE IF line.name \in {"SUMMARY", "DESCRIPTION", "UID", "RRULE"}
     THEN [currentEvent |-> [currentEvent EXCEPT ![FieldOf[line.name]] = line.text],
           lastProperty |-> FieldOf[line.name]]
     ELSE IF line.name = "EXDATE"
     THEN [currentEvent |-> [currentEvent EXCEPT !.exdates = Append(@, line.text)],
           lastProperty |-> NoProperty]
     ELSE IF line.name = "RDATE"
     THEN [currentEvent |-> [currentEvent EXCEPT !.rdates = Append(@, line.text)],
           lastProperty |-> NoProperty]
     ELSE reader

\* the loop body for one line inside a VEVENT
ReadLine(reader, line) ==
  LET currentEvent == reader.currentEvent
      lastProperty == reader.lastProperty
  IN IF line.continuation
     THEN IF lastProperty # NoProperty /\ currentEvent[lastProperty] # <<>>
          THEN [reader EXCEPT !.currentEvent[lastProperty] =
                                 @ \o unescapePair(line.text, "n", "\n")]
          ELSE reader
     ELSE IF line.name = "DTSTART"
     THEN [currentEvent |-> [currentEvent EXCEPT !.start = line.text,
                                                 !.startIsValueDate = line.isValueDate],
           lastProperty |-> "start"]
     ELSE IF line.name = "DTEND"
     THEN [currentEvent |-> [currentEvent EXCEPT !.end = line.text,
                                                 !.endIsValueDate = line.isValueDate],
           lastProperty |-> "end"]
     ELSE IF line.name \in {"SUMMARY", "DESCRIPTION", "UID", "RRULE"}
     THEN [currentEvent |-> [currentEvent EXCEPT ![FieldOf[line.name]] = line.text],
           lastProperty |-> FieldOf[line.name]]
     ELSE IF line.name = "EXDATE"
     THEN [currentEvent |-> [currentEvent EXCEPT !.exdates = Append(@, line.text)],
           lastProperty |-> NoProperty]
     ELSE IF line.name = "RDATE"
     THEN [currentEvent |-> [currentEvent EXCEPT !.rdates = Append(@, line.text)],
           lastProperty |-> NoProperty]
     ELSE [reader EXCEPT !.lastProperty = NoProperty]

\* currentEvent at END:VEVENT, after the lines of the VEVENT
RECURSIVE ReadLines(_, _)
ReadLines(reader, lines) ==
  IF Len(lines) = 0 THEN reader.currentEvent
  ELSE ReadLines(ReadLine(reader, lines[1]), Tail(lines))

\* the lines of the VEVENTs: properties with an empty and a non-empty
\* value, and continuation lines with and without the escape \n
MaxLines == 3
VeventLines ==
  { PropertyLine("SUMMARY", FALSE, <<>>), PropertyLine("SUMMARY", FALSE, <<"a">>),
    PropertyLine("DTSTART", FALSE, <<"3">>), PropertyLine("DTEND", TRUE, <<"4">>),
    PropertyLine("DESCRIPTION", FALSE, <<"b">>), PropertyLine("UID", FALSE, <<"x">>),
    PropertyLine("RRULE", FALSE, <<"C">>),
    PropertyLine("EXDATE", FALSE, <<"3">>), PropertyLine("RDATE", FALSE, <<"4">>),
    PropertyLine("X", FALSE, <<"a">>),
    ContinuationLine(<<"b">>), ContinuationLine(<<"\\", "n">>) }

InitLines ==
  /\ Off
  /\ VariantsOff
  /\ input \in SeqUpTo(VeventLines, MaxLines)
  /\ output = NoOutput

\* the VEVENT is read up to its END:VEVENT
Read ==
  /\ ~output.done
  /\ Returns(ReadLines(NewReader, input))
  /\ UNCHANGED <<server, variants, input>>

NextLines == Read

SpecLines == InitLines /\ [][NextLines]_vars

(* ------------------------- the lines of a file ------------------------ *)
\* the lines BEGIN:VEVENT and END:VEVENT, and a line without a colon
BeginVevent == PropertyLine("BEGIN:VEVENT", FALSE, <<>>)
EndVevent == PropertyLine("END:VEVENT", FALSE, <<>>)
NoColonLine == PropertyLine("", FALSE, <<>>)

\* the variables of the loop before the first line; records are the
\* currentEvent of every END:VEVENT branch, in order
NewFileReader ==
  [inEvent |-> FALSE, currentEvent |-> NewEvent, lastProperty |-> NoProperty,
   records |-> <<>>]

\* the loop body with a BEGIN:VEVENT branch that keeps currentEvent
ReadFileLineKeepingEvent(reader, line) ==
  IF reader.inEvent /\ line.continuation
  THEN LET r == ReadLine([currentEvent |-> reader.currentEvent,
                          lastProperty |-> reader.lastProperty], line)
       IN [reader EXCEPT !.currentEvent = r.currentEvent, !.lastProperty = r.lastProperty]
  ELSE IF line = BeginVevent
  THEN [reader EXCEPT !.inEvent = TRUE, !.lastProperty = NoProperty]
  ELSE IF line = EndVevent /\ reader.inEvent
  THEN [inEvent |-> FALSE, currentEvent |-> NewEvent, lastProperty |-> NoProperty,
        records |-> Append(reader.records, reader.currentEvent)]
  ELSE IF reader.inEvent /\ ~line.continuation
  THEN LET r == ReadLine([currentEvent |-> reader.currentEvent,
                          lastProperty |-> reader.lastProperty], line)
       IN [reader EXCEPT !.currentEvent = r.currentEvent, !.lastProperty = r.lastProperty]
  ELSE reader

\* the loop body for one line of the file: a continuation line inside an
\* event, BEGIN:VEVENT, END:VEVENT inside an event, another line inside an
\* event, and any line outside an event
ReadFileLine(reader, line) ==
  IF reader.inEvent /\ line.continuation
  THEN LET r == ReadLine([currentEvent |-> reader.currentEvent,
                          lastProperty |-> reader.lastProperty], line)
       IN [reader EXCEPT !.currentEvent = r.currentEvent, !.lastProperty = r.lastProperty]
  ELSE IF line = BeginVevent
  THEN [reader EXCEPT !.inEvent = TRUE, !.currentEvent = NewEvent,
                      !.lastProperty = NoProperty]
  ELSE IF line = EndVevent /\ reader.inEvent
  THEN [inEvent |-> FALSE, currentEvent |-> NewEvent, lastProperty |-> NoProperty,
        records |-> Append(reader.records, reader.currentEvent)]
  ELSE IF reader.inEvent /\ ~line.continuation
  THEN LET r == ReadLine([currentEvent |-> reader.currentEvent,
                          lastProperty |-> reader.lastProperty], line)
       IN [reader EXCEPT !.currentEvent = r.currentEvent, !.lastProperty = r.lastProperty]
  ELSE reader

\* the variables of the loop after each line of lines
RECURSIVE ReadFile(_, _, _)
ReadFile(reader, lines, trace) ==
  IF Len(lines) = 0 THEN trace
  ELSE ReadFile(ReadFileLine(reader, lines[1]), Tail(lines),
                Append(trace, ReadFileLine(reader, lines[1])))

\* the lines of the files
MaxFileLines == 5
FileLines ==
  { BeginVevent, EndVevent, NoColonLine,
    PropertyLine("SUMMARY", FALSE, <<"a">>), PropertyLine("X", FALSE, <<"a">>),
    PropertyLine("EXDATE", FALSE, <<"3">>), PropertyLine("RDATE", FALSE, <<"4">>),
    ContinuationLine(<<"b">>) }

InitFile ==
  /\ Off
  /\ VariantsOff
  /\ input \in UNION {[1..k -> FileLines] : k \in 0..MaxFileLines}
  /\ output = NoOutput

\* the file is read to its end
ReadToEnd ==
  /\ ~output.done
  /\ Returns(ReadFile(NewFileReader, input, <<>>))
  /\ UNCHANGED <<server, variants, input>>

NextFile == ReadToEnd

SpecFile == InitFile /\ [][NextFile]_vars

(* ------------------------ the day-keyed variant ----------------------- *)
\* parseICSToDate of a date-only value, then toISOString().split('T')[0]:
\* the UTC date of the local midnight of the date
KeyedDate(ev) == ISODate(LocalMidnight(ev.start.date))

\* the object pushed to cachedEvents[section]
KeyedEntry(ev, section) ==
  [id |-> IF ev.uid # "" THEN [uid |-> ev.uid, ts |-> 0]
          ELSE [uid |-> section, ts |-> LocalMidnight(ev.start.date)],
   summary |-> ev.summary, description |-> ev.description,
   start |-> LocalMidnight(ev.start.date)]

RECURSIVE KeyedPush(_, _, _)
\* the loop over matches: the entry is pushed to the bucket of every match
KeyedPush(buckets, ev, matches) ==
  IF Len(matches) = 0 THEN buckets
  ELSE LET section == matches[1]
           old == IF section \in DOMAIN buckets THEN buckets[section] ELSE <<>>
       IN KeyedPush([k \in (DOMAIN buckets) \cup {section} |->
                       IF k = section THEN Append(old, KeyedEntry(ev, section))
                       ELSE buckets[k]],
                    ev, Tail(matches))

\* eventsBySection[section] || []
KeyedBucket(buckets, section) ==
  IF section \in DOMAIN buckets THEN buckets[section] ELSE <<>>

\* the feeds: VEVENTs with a date-only DTSTART, of today and of tomorrow as
\* the variant dates them
KeyedSources ==
  { << Event("k1", DateOnly(StartDay + 1), NoDate, <<"3", "B">>, <<>>),
       Event("k2", DateOnly(StartDay + 1), NoDate, <<"3", "B">>, <<"4", "A">>) >>,
    << Event("k3", DateOnly(StartDay + 1), NoDate, <<"4", "A">>, <<>>),
       Event("k4", DateOnly(StartDay + 2), NoDate, <<"4", "A">>, <<"3", "B">>) >> }
KeyedSections == {<<"3", "B">>, <<"4", "A">>}

\* the executions of fetchICS the model follows at a time, and the days
MaxFetches == 2
MaxKeyedDays == 1

\* the main server is not running; the day-keyed variant has just started
InitKeyed ==
  /\ now = StartTime
  /\ source \in KeyedSources
  /\ calls = EmptyBag
  /\ started = 0
  /\ files = {}
  /\ timer = NoTimer
  /\ cachedRecent = <<>>
  /\ recentBuiltAt = 0
  /\ cachedByDay = [d \in {} |-> EmptyIndex]
  /\ lastDayBuilt = NoDay
  /\ cacheStatus = "building"
  /\ writer = [recent |-> 0, builtAt |-> 0, byDay |-> 0, lastDay |-> 0]
  /\ ended = NoEnd
  /\ resp = NoResp
  /\ input = NoInput /\ output = NoOutput
  /\ KeyedOff /\ NotifyOff

\* GET /events?section=...: fetchICS returns the cache of today, or empties
\* cachedEvents and sends the request for the feed
KeyedGetEvents(section) ==
  LET today == ISODate(now) IN
  /\ IF lastFetchDay = today
     THEN /\ answer' = [status |-> 200, section |-> section, today |-> today,
                        body |-> KeyedBucket(cachedEvents, section)]
          /\ UNCHANGED <<cachedEvents, fetches>>
     ELSE /\ Cardinality(fetches) < MaxFetches
          /\ cachedEvents' = [k \in {} |-> <<>>]
          /\ fetches' = fetches \cup
               {[n |-> CHOOSE n \in 1..MaxFetches : \A f \in fetches : f.n # n,
                 today |-> today, section |-> section, pos |-> 0]}
          /\ answer' = NoAnswer
  /\ UNCHANGED <<lastFetchDay, server, evaluation, notify>>

\* the 'line' handler at the END:VEVENT of the next VEVENT of the response
KeyedEndVevent(f) ==
  LET ev == source[f.pos + 1]
      text == ev.summary \o <<" ">> \o ev.description
  IN /\ f.pos < Len(source)
     /\ cachedEvents' = IF KeyedDate(ev) = f.today
                        THEN KeyedPush(cachedEvents, ev, SectionMatches(text))
                        ELSE cachedEvents
     /\ fetches' = (fetches \ {f}) \cup {[f EXCEPT !.pos = f.pos + 1]}
     /\ answer' = NoAnswer
     /\ UNCHANGED <<lastFetchDay, server, evaluation, notify>>

\* 'close': the promise resolves, fetchICS sets lastFetchDay and returns
\* cachedEvents, and the handler that awaited it responds
KeyedClose(f) ==
  /\ f.pos = Len(source)
  /\ lastFetchDay' = f.today
  /\ fetches' = fetches \ {f}
  /\ answer' = [status |-> 200, section |-> f.section, today |-> f.today,
                body |-> KeyedBucket(cachedEvents, f.section)]
  /\ UNCHANGED <<cachedEvents, server, evaluation, notify>>

\* a status other than 200, or a network error: the promise rejects,
\* fetchICS throws and the handler that awaited it sends no response
KeyedFail(f) ==
  /\ f.pos = 0
  /\ fetches' = fetches \ {f}
  /\ answer' = NoAnswer
  /\ UNCHANGED <<cachedEvents, lastFetchDay, server, evaluation, notify>>

\* the next day begins
KeyedDayPasses ==
  /\ now + DayMs <= StartTime + MaxKeyedDays * DayMs
  /\ now' = now + DayMs
  /\ answer' = NoAnswer
  /\ UNCHANGED <<source, calls, started, files, timer,
                 cachedRecent, recentBuiltAt, cachedByDay, lastDayBuilt, cacheStatus,
                 writer, ended, resp, evaluation, cachedEvents, lastFetchDay, fetches,
                 notify>>

NextKeyed ==
  \/ \E section \in KeyedSections : KeyedGetEvents(section)
  \/ \E f \in fetches : KeyedEndVevent(f)
  \/ \E f \in fetches : KeyedClose(f)
  \/ \E f \in fetches : KeyedFail(f)
  \/ KeyedDayPasses

SpecKeyed == InitKeyed /\ [][NextKeyed]_vars

(* ----------------------- extractClassFromSummary ---------------------- *)
\* \s and [A-Z0-9] over the characters of the summaries
Whitespace == {" ", "\n"}
ClassChar == {"C", "L", "A", "S", "E", "3", "B", "4"}

\* the word of the marker
Marker == <<"C", "L", "A", "S", "S", "E">>

\* length of the longest prefix of text made of characters of S
RECURSIVE RunOf(_, _)
RunOf(text, S) ==
  IF Len(text) = 0 \/ text[1] \notin S THEN 0
  ELSE 1 + RunOf(Tail(text), S)

\* classMatch is null; classMatch[1] is token
NoMatch == [matched |-> FALSE, token |-> <<>>]
Match(token) == [matched |-> TRUE, token |-> token]

\* /CLASSE\s+([A-Z0-9]+)\s/ tried at the head of text: both runs are greedy
\* and giving a character back never helps, since the character after a
\* shortened run is of the run's own class
ClassMatchAt(text) ==
  IF Len(text) < Len(Marker) \/ SubSeq(text, 1, Len(Marker)) # Marker THEN NoMatch
  ELSE LET rest == SubSeq(text, Len(Marker) + 1, Len(text))
           w == RunOf(rest, Whitespace)
           word == SubSeq(rest, w + 1, Len(rest))
           n == RunOf(word, ClassChar)
       IN IF w >= 1 /\ n >= 1 /\ Len(word) > n /\ word[n + 1] \in Whitespace
          THEN Match(SubSeq(word, 1, n))
          ELSE NoMatch

RECURSIVE extractClassFromSummary(_)
\* summary.match(...): the leftmost position at which the expression
\* matches; classMatch ? classMatch[1] : null
extractClassFromSummary(summary) ==
  IF Len(summary) = 0 THEN NoMatch
  ELSE IF ClassMatchAt(summary).matched THEN ClassMatchAt(summary)
  ELSE extractClassFromSummary(Tail(summary))

\* the summaries: up to MaxPieces pieces, each the marker, a blank, a class,
\* a name in lower case or a full stop
MaxPieces == 5
SummaryPieces == {Marker, <<" ">>, <<"3", "B">>, <<"4", "A">>, <<"a">>, <<".">>}

RECURSIVE Joined(_)
Joined(pieces) ==
  IF Len(pieces) = 0 THEN <<>> ELSE pieces[1] \o Joined(Tail(pieces))

Summaries == {Joined(p) : p \in SeqUpTo(SummaryPieces, MaxPieces)}

InitClass ==
  /\ Off
  /\ VariantsOff
  /\ input \in Summaries
  /\ output = NoOutput

\* extractClassFromSummary(event.summary)
ExtractClass ==
  /\ ~output.done
  /\ Returns(extractClassFromSummary(input))
  /\ UNCHANGED <<server, variants, input>>

NextClass == ExtractClass

SpecClass == InitClass /\ [][NextClass]_vars

(* -------------------- checkAndSendRealTimeNotifications --------------- *)
RECURSIVE ParseAll(_, _, _)
\* parseICSFileStreaming over the VEVENTs of the file, read at time clock
ParseAll(events, acc, clock) ==
  IF Len(events) = 0 THEN acc
  ELSE ParseAll(Tail(events),
                ParseEvent(acc, events[1],
                           LocalMidnight(LocalDate(clock)),
                           LocalMidnight(LocalDate(clock)) + WINDOW_DAYS * DayMs,
                           ISODate(clock), clock),
                clock)

\* the documents of the tokens collection with realtimeEnabled, in the
\* order of the snapshot; none of them has a professor
RealtimeTokens ==
  << [token |-> "t1", section |-> <<"3", "B">>],
     [token |-> "t2", section |-> <<"4", "A">>] >>

\* summaries with a class marker
Class3B == Marker \o <<" ", "3", "B", " ", "a">>
Class4A == Marker \o <<" ", "4", "A", " ", "a">>

\* the calendars the checks run over: VEVENTs of today with and without UID
NotifySources ==
  { << Event("n1", TimedLocal(StartDay, 9 * HourMs), NoDate, Class3B, <<>>),
       Event("n2", TimedLocal(StartDay + 1, 9 * HourMs), NoDate, Class3B, <<>>) >>,
    << Event("", TimedLocal(StartDay, 10 * HourMs), NoDate, Class4A, <<>>),
       Event("n3", DateOnly(StartDay), NoDate, Class3B, <<>>) >> }

\* rebuilds of the cache, notifications handed over, and ticks of the clock
\* in one behaviour
MaxRebuilds == 2
MaxSent == 3
MaxNotifyTicks == 1

\* cachedRecent.filter(e => d === todayISO)
TodayEvents(todayISO) == SelectSeq(cachedRecent, LAMBDA e : OccDate(e) = todayISO)

\* todayEvents.filter(e => !lastSentEventIds.has(e.id))
NewEvents(todayISO) ==
  SelectSeq(TodayEvents(todayISO), LAMBDA e : e.id \notin lastSentEventIds)

\* eventsBySection[section]: the new events whose summary carries the class
EventsOfSection(newEvents, section) ==
  SelectSeq(newEvents, LAMBDA e : extractClassFromSummary(e.summary) = Match(section))

\* Array.from(new Map(events.map(e => [e.id, e])).values()): one entry for
\* each id, at the place of its first event and with its last event
UniqueById(events) ==
  LET first == {i \in 1..Len(events) : \A k \in 1..(i - 1) : events[k].id # events[i].id}
      order == Ascending(first)
  IN [n \in 1..Len(order) |->
        LET last == CHOOSE j \in 1..Len(events) :
                      /\ events[j].id = events[order[n]].id
                      /\ \A k \in (j + 1)..Len(events) : events[k].id # events[j].id
        IN events[last]]

RECURSIVE Recipients(_, _)
\* tokensSnapshot.forEach: one notification for every token that has events
Recipients(tokens, newEvents) ==
  IF Len(tokens) = 0 THEN <<>>
  ELSE LET eventsToNotify == UniqueById(EventsOfSection(newEvents, tokens[1].section))
           rest == Recipients(Tail(tokens), newEvents)
       IN IF Len(eventsToNotify) > 0
          THEN <<[token |-> tokens[1].token, type |-> "realtime",
                  events |-> eventsToNotify]>> \o rest
          ELSE rest

InitNotify ==
  /\ now = StartTime
  /\ source \in NotifySources
  /\ calls = EmptyBag
  /\ started = 0
  /\ files = {}
  /\ timer = NoTimer
  /\ cachedRecent = <<>>
  /\ recentBuiltAt = 0
  /\ cachedByDay = [d \in {} |-> EmptyIndex]
  /\ lastDayBuilt = NoDay
  /\ cacheStatus = "building"
  /\ writer = [recent |-> 0, builtAt |-> 0, byDay |-> 0, lastDay |-> 0]
  /\ ended = NoEnd
  /\ resp = NoResp
  /\ input = NoInput /\ output = NoOutput
  /\ KeyedOff /\ NotifyOff

\* fetchAndRebuildCache, called by backgroundRefresh, downloads and parses
\* the calendar and publishes the snapshot
NotifyRebuild ==
  /\ started < MaxRebuilds
  /\ started' = started + 1
  /\ LET acc == ParseAll(source, [recent |-> <<>>, bySection |-> EmptyIndex], now)
     IN Publish([recent |-> acc.recent, bySection |-> acc.bySection,
                 order |-> started + 1])
  /\ cacheStatus' = "ready"
  /\ UNCHANGED <<now, source, calls, files, timer, ended, resp>>
  /\ UNCHANGED <<evaluation, keyed, notify>>

\* time passes
NotifyTick ==
  /\ now < StartTime + MaxNotifyTicks * TickMs
  /\ now' = now + TickMs
  /\ UNCHANGED <<source, calls, started, files, timer, cache, cacheStatus,
                 writer, ended, resp>>
  /\ UNCHANGED <<evaluation, keyed, notify>>

\* the cron job of every tenth minute calls checkAndSendRealTimeNotifications,
\* which sends the query for the tokens
CheckStart ==
  /\ Len(sent) < MaxSent
  /\ Cardinality(checks) < 2
  /\ checks' = checks \cup
       {[n |-> CHOOSE n \in 1..2 : \A c \in checks : c.n # n,
         pc |-> "tokens", newEvents |-> <<>>]}
  /\ UNCHANGED <<lastSentEventIds, sent, jobs, digestRuns>>
  /\ UNCHANGED <<server, evaluation, keyed>>

\* the tokens arrive: the new events of today are taken from cachedRecent and
\* one notification for every token concerned is handed to the push service
CheckTokens(c) ==
  /\ c.pc = "tokens"
  /\ LET newEvents == NewEvents(ISODate(now)) IN
       IF Len(newEvents) = 0
       THEN /\ checks' = checks \ {c}
            /\ UNCHANGED sent
       ELSE /\ checks' = (checks \ {c}) \cup
                           {[c EXCEPT !.pc = "send", !.newEvents = newEvents]}
            /\ sent' = sent \o Recipients(RealtimeTokens, newEvents)
  /\ UNCHANGED <<lastSentEventIds, jobs, digestRuns>>
  /\ UNCHANGED <<server, evaluation, keyed>>

\* the query for the tokens fails: the catch block logs the error
CheckFail(c) ==
  /\ c.pc = "tokens"
  /\ checks' = checks \ {c}
  /\ UNCHANGED <<lastSentEventIds, sent, jobs, digestRuns>>
  /\ UNCHANGED <<server, evaluation, keyed>>

\* Promise.allSettled returns: newEvents.forEach(e => lastSentEventIds.add(e.id))
CheckSettled(c) ==
  /\ c.pc = "send"
  /\ lastSentEventIds' =
       lastSentEventIds \cup {c.newEvents[i].id : i \in 1..Len(c.newEvents)}
  /\ checks' = checks \ {c}
  /\ UNCHANGED <<sent, jobs, digestRuns>>
  /\ UNCHANGED <<server, evaluation, keyed>>

NextNotify ==
  \/ NotifyRebuild
  \/ NotifyTick
  \/ CheckStart
  \/ \E c \in checks : CheckTokens(c)
  \/ \E c \in checks : CheckFail(c)
  \/ \E c \in checks : CheckSettled(c)

SpecNotify == InitNotify /\ [][NextNotify]_vars

(* -------------------- the Expo/Web-Push variant: mornings ------------- *)
\* now.getHours() and now.getMinutes()
Hours(t) == LocalTod(t) \div HourMs
Minutes(t) == (LocalTod(t) % HourMs) \div 60000

\* the documents of the tokens collection, all with realtimeEnabled and
\* digestEnabled; digestTime "06:00" is written 6
ExpoTokens ==
  << [token |-> "e6", section |-> <<"3", "B">>, digestTime |-> 6],
     [token |-> "e7", section |-> <<"3", "B">>, digestTime |-> 7],
     [token |-> "e8", section |-> <<"3", "B">>, digestTime |-> 8],
     [token |-> "e9", section |-> <<"3", "B">>, digestTime |-> 9] >>

\* the morning starts ten minutes before six, local time, and is followed
\* for MaxMorningTicks periods of the cron job
MorningStart == FromLocal(StartDay * DayMs + 6 * HourMs - TickMs)
MaxMorningTicks == 16
MaxChecks == 2

\* the calendar of the morning: an event of today for class 3B, alone or
\* followed by one of tomorrow
MorningSources ==
  { << Event("m1", TimedLocal(StartDay, 9 * HourMs), NoDate, Class3B, <<>>) >>,
    << Event("m1", TimedLocal(StartDay, 9 * HourMs), NoDate, Class3B, <<>>),
       Event("m2", TimedLocal(StartDay + 1, 9 * HourMs), NoDate, Class3B, <<>>) >> }

\* hour < 8 || (hour === 8 && minute <= 10)
Paused(t) == Hours(t) < 8 \/ (Hours(t) = 8 /\ Minutes(t) <= 10)

\* the digest times a realtime check leaves out: where("digestTime",
\* "not-in", excludedTimes); morningDigestHour = null is written 0
ExcludedTimes(morningDigestHour) ==
  IF morningDigestHour = 0 THEN {}
  ELSE (IF morningDigestHour < 7 THEN {7} ELSE {}) \cup
       (IF morningDigestHour < 8 THEN {8} ELSE {})

\* the snapshot of the tokens of a realtime check
RealtimeSnapshot(morningDigestHour) ==
  SelectSeq(ExpoTokens, LAMBDA t : t.digestTime \notin ExcludedTimes(morningDigestHour))

\* where("digestTime", "==", digestTime)
DigestSnapshot(digestTime) ==
  SelectSeq(ExpoTokens, LAMBDA t : t.digestTime = digestTime)

RECURSIVE DigestRecipients(_, _)
\* the loop over the tokens of a digest: userEvents of the token's section
DigestRecipients(tokens, todayEvents) ==
  IF Len(tokens) = 0 THEN <<>>
  ELSE LET userEvents == EventsOfSection(todayEvents, tokens[1].section)
           rest == DigestRecipients(Tail(tokens), todayEvents)
       IN IF Len(userEvents) > 0
          THEN <<[token |-> tokens[1].token, type |-> "digest",
                  events |-> userEvents]>> \o rest
          ELSE rest

\* a call of checkAndSendRealTimeNotifications(morningDigestHour) sends the
\* query for its tokens
NewCheck(running, morningDigestHour) ==
  [n |-> CHOOSE n \in 1..MaxChecks : \A c \in running : c.n # n,
   pc |-> "tokens", newEvents |-> <<>>, morningDigestHour |-> morningDigestHour]

\* the cache was built by the refresh before the morning began
InitMorning ==
  /\ now = MorningStart
  /\ source \in MorningSources
  /\ calls = EmptyBag
  /\ started = 1
  /\ files = {}
  /\ timer = NoTimer
  /\ LET acc == ParseAll(source, [recent |-> <<>>, bySection |-> EmptyIndex], now)
     IN /\ cachedRecent = acc.recent
        /\ cachedByDay = [d \in {ISODate(now)} |-> acc.bySection]
  /\ recentBuiltAt = now
  /\ lastDayBuilt = ISODate(now)
  /\ cacheStatus = "ready"
  /\ writer = [recent |-> 1, builtAt |-> 1, byDay |-> 1, lastDay |-> 1]
  /\ ended = NoEnd
  /\ resp = NoResp
  /\ input = NoInput /\ output = NoOutput
  /\ KeyedOff /\ NotifyOff

\* ten minutes pass and the cron jobs of the new minute fire: the realtime
\* job returns at once while paused and calls the check otherwise; at six,
\* seven and eight runMorningJobs(hour) calls fetchAndRebuildCache. What the
\* jobs of a minute start has ended before the jobs of the next one fire
MorningTick ==
  LET t == now + TickMs IN
  /\ now < MorningStart + MaxMorningTicks * TickMs
  /\ jobs = {} /\ checks = {}
  /\ now' = t
  /\ checks' = IF Paused(t) \/ Cardinality(checks) >= MaxChecks THEN checks
               ELSE checks \cup {NewCheck(checks, 0)}
  /\ jobs' = IF Hours(t) \in {6, 7, 8} /\ Minutes(t) = 0
             THEN jobs \cup {[hour |-> Hours(t), pc |-> "rebuild", digestTime |-> 0]}
             ELSE jobs
  /\ UNCHANGED <<source, calls, started, files, timer, cache, cacheStatus,
                 writer, ended, resp>>
  /\ UNCHANGED <<lastSentEventIds, sent, digestRuns>>
  /\ UNCHANGED <<evaluation, keyed>>

\* fetchAndRebuildCache returns: the snapshot is published and
\* sendDailyDigestNotifications reads the hour and sends its query
JobRebuilt(j) ==
  /\ j.pc = "rebuild"
  /\ LET acc == ParseAll(source, [recent |-> <<>>, bySection |-> EmptyIndex], now)
     IN Publish([recent |-> acc.recent, bySection |-> acc.bySection,
                 order |-> writer.recent + 1])
  /\ jobs' = (jobs \ {j}) \cup {[j EXCEPT !.pc = "digest", !.digestTime = Hours(now)]}
  /\ UNCHANGED <<now, source, calls, started, files, timer, cacheStatus, ended, resp>>
  /\ UNCHANGED <<lastSentEventIds, checks, sent, digestRuns>>
  /\ UNCHANGED <<evaluation, keyed>>

\* fetchAndRebuildCache throws: the catch block of runMorningJobs logs the
\* error, and neither the digest nor the realtime check is called
JobRebuildFails(j) ==
  /\ j.pc = "rebuild"
  /\ jobs' = jobs \ {j}
  /\ UNCHANGED <<lastSentEventIds, checks, sent, digestRuns>>
  /\ UNCHANGED <<server, evaluation, keyed>>

\* the tokens of the digest arrive: the events of today of each token are
\* handed to the push service; with nothing to send the digest returns and
\* the realtime check of the morning is called
JobDigest(j) ==
  /\ j.pc = "digest"
  /\ LET recipients == DigestRecipients(DigestSnapshot(j.digestTime),
                                        TodayEvents(ISODate(now)))
     IN /\ sent' = sent \o recipients
        /\ IF Len(recipients) = 0
           THEN /\ jobs' = jobs \ {j}
                /\ checks' = checks \cup {NewCheck(checks, j.hour)}
           ELSE /\ jobs' = (jobs \ {j}) \cup {[j EXCEPT !.pc = "digestSend"]}
                /\ UNCHANGED checks
  /\ digestRuns' = digestRuns \cup {j.digestTime}
  /\ UNCHANGED lastSentEventIds
  /\ UNCHANGED <<server, evaluation, keyed>>

\* the query of the digest fails: its catch block logs the error, the digest
\* returns and the realtime check of the morning is called
JobDigestFails(j) ==
  /\ j.pc = "digest"
  /\ jobs' = jobs \ {j}
  /\ checks' = checks \cup {NewCheck(checks, j.hour)}
  /\ digestRuns' = digestRuns \cup {j.digestTime}
  /\ UNCHANGED <<lastSentEventIds, sent>>
  /\ UNCHANGED <<server, evaluation, keyed>>

\* sendNotificationBatch of the digest returns; the realtime check of the
\* morning is called
JobDigestSent(j) ==
  /\ j.pc = "digestSend"
  /\ jobs' = jobs \ {j}
  /\ checks' = checks \cup {NewCheck(checks, j.hour)}
  /\ UNCHANGED <<lastSentEventIds, sent, digestRuns>>
  /\ UNCHANGED <<server, evaluation, keyed>>

\* the tokens of a realtime check arrive; it returns when nothing is new or
\* no token is concerned
ExpoCheckTokens(c) ==
  /\ c.pc = "tokens"
  /\ LET newEvents == NewEvents(ISODate(now))
         recipients == Recipients(RealtimeSnapshot(c.morningDigestHour), newEvents)
     IN IF Len(newEvents) = 0 \/ Len(recipients) = 0
        THEN /\ checks' = checks \ {c}
             /\ UNCHANGED sent
        ELSE /\ checks' = (checks \ {c}) \cup
                            {[c EXCEPT !.pc = "send", !.newEvents = newEvents]}
             /\ sent' = sent \o recipients
  /\ UNCHANGED <<lastSentEventIds, jobs, digestRuns>>
  /\ UNCHANGED <<server, evaluation, keyed>>

\* sendNotificationBatch of a realtime check returns: the ids of newEvents
\* are added to lastSentEventIds, which stays far below a thousand ids
ExpoCheckSent(c) ==
  /\ c.pc = "send"
  /\ lastSentEventIds' =
       lastSentEventIds \cup {c.newEvents[i].id : i \in 1..Len(c.newEvents)}
  /\ checks' = checks \ {c}
  /\ UNCHANGED <<sent, jobs, digestRuns>>
  /\ UNCHANGED <<server, evaluation, keyed>>

NextMorning ==
  \/ MorningTick
  \/ \E j \in jobs : JobRebuilt(j)
  \/ \E j \in jobs : JobRebuildFails(j)
  \/ \E j \in jobs : JobDigest(j)
  \/ \E j \in jobs : JobDigestFails(j)
  \/ \E j \in jobs : JobDigestSent(j)
  \/ \E c \in checks : ExpoCheckTokens(c)
  \/ \E c \in checks : ExpoCheckSent(c)

SpecMorning == InitMorning /\ [][NextMorning]_vars

(* ------------------------------ the claims ---------------------------- *)
\* C1: at most one execution of fetchAndRebuildCache is in flight at any
\* time, whatever triggered it
C1_AtMostOneRebuildInFlight == NumInFlight <= 1

\* C2: while a rebuild started by a stale GET /events is in flight, no
\* GET /events starts another rebuild
C2_NoSecondStalenessRebuild ==
  [][(\E c \in Calls : c.trigger = "query")
       => ~(resp'.route = "events" /\ started' # started)]_vars

\* C3: the published snapshot is never replaced by one that was downloaded
\* earlier: the download number of the published snapshot never decreases
C3_NoStaleAfterFresh == [][writer'.recent >= writer.recent]_vars

\* C4: in every state (each is a point where a request handler can run) the
\* four cache variables were assigned by the same call, or none of them has
\* been assigned yet, and they fit together: the index is keyed by the day
\* the snapshot was built on
C4_OneCompleteSnapshot ==
  /\ writer.recent = writer.builtAt
  /\ writer.builtAt = writer.byDay
  /\ writer.byDay = writer.lastDay
  /\ IF writer.recent = 0
     THEN cachedRecent = <<>> /\ recentBuiltAt = 0
          /\ DOMAIN cachedByDay = {} /\ lastDayBuilt = NoDay
     ELSE lastDayBuilt = ISODate(recentBuiltAt) /\ DOMAIN cachedByDay = {lastDayBuilt}

\* a request is answered after one published snapshot has replaced another
C4_Witness ==
  /\ resp.route \in {"events", "health"}
  /\ resp.status = 200
  /\ writer.recent = 2

\* C5: a call that ends because the download failed or the parse threw has
\* assigned none of the four cache variables: the step that ends it leaves
\* them unchanged, and no step other than the end of a completely parsed
\* call changes them
C5_FailedRebuildPublishesNothing ==
  [][/\ (ended'.failure \in {"download", "parse"} => cache' = cache)
     /\ (cache' # cache => ended'.published /\ ended'.failure \in {"none", "cleanup"})]_vars

\* a parse fails after it has produced occurrences, while a snapshot is
\* published
C5_Witness ==
  /\ ended.failure = "parse"
  /\ ended.parsed > 0
  /\ writer.recent # 0

\* C6: when a call has ended because the download failed on every attempt,
\* cacheStatus is 'error'
C6_DownloadFailureSetsError ==
  (ended.failure = "download") => (cacheStatus = "error")

\* C7: as long as nothing has been published, GET /events answers 503
C7_NotReadyBeforeFirstSnapshot ==
  (resp.route = "events" /\ writer.recent = 0) => (resp.status = 503)

\* C8: every temp file that exists is the file of a call that is writing or
\* parsing it: a call that waits for its retry, or has returned or thrown,
\* has left no file behind
C8_NoTempFileLeftBehind ==
  \A f \in files :
    \E c \in Calls : c.tempFile = f /\ c.pc \in {"writing", "parsing"}

\* a call has thrown after its temp file had been written, and the temp
\* directory is empty
C8_Witness ==
  /\ ended.failure = "parse"
  /\ files = {}

\* C9: the calendar does not change; when a call that started after the
\* published snapshot was published, and found it still published at its
\* end, publishes its snapshot on the same day, the new recent list equals
\* the old one
C9_RebuildIdempotent ==
  [][( /\ ended'.published
       /\ ended'.follows
       /\ lastDayBuilt' = lastDayBuilt )
     => cachedRecent' = cachedRecent]_vars

\* C10: every occurrence in a bucket of the published section index is an
\* element of the published recent list
C10_IndexWithinRecent ==
  \A d \in DOMAIN cachedByDay : \A s \in DOMAIN cachedByDay[d] :
    \A i \in 1..Len(cachedByDay[d][s]) :
      \E j \in 1..Len(cachedRecent) : cachedRecent[j] = cachedByDay[d][s][i]

\* a section index with a bucket that is not empty is published
C10_Witness ==
  \E d \in DOMAIN cachedByDay : \E s \in DOMAIN cachedByDay[d] :
    Len(cachedByDay[d][s]) > 0

\* C19: unescaping the escaped form of a text gives the text back
C19_UnescapeRoundTrip == output.done => output.value = input

\* what the claims about expandEvent speak of: the record, its parsed start,
\* the occurrences returned
TheRecord == input.record
TheStart == parseICSDate(TheRecord.start, TheRecord.startIsValueDate)
Expanded == output.done
Occurrences == output.value
StartParses == TheStart.ok /\ ~TheStart.nan
\* the summary and the description of the record before ICS escaping
PlainSummary == CHOOSE text \in ExpandTexts : escapeICSText(text) = TheRecord.summary
PlainDescription == ExpandDescription

\* C12: a record without RRULE gives exactly one occurrence when its start
\* lies in [rangeStart, rangeEnd) and none otherwise; the occurrence has the
\* start of the record and its summary and description with the ICS escapes
\* resolved
C12_NonRecurringOneOccurrence ==
  Expanded /\ ~TheRecord.rrule.present =>
    IF StartParses /\ input.rangeStart <= TheStart.t /\ TheStart.t < input.rangeEnd
    THEN /\ Len(Occurrences) = 1
         /\ Occurrences[1].start = (IF TheStart.isAllDay THEN LocalDate(TheStart.t)
                                    ELSE TheStart.t)
         /\ Occurrences[1].summary = PlainSummary
         /\ Occurrences[1].description = PlainDescription
    ELSE Occurrences = <<>>

\* C13: an all-day record without RRULE on date D is returned exactly when
\* date(rangeStart) <= D < date(rangeEnd), whatever the times of day of
\* rangeStart and rangeEnd
C13_AllDayByCalendarDate ==
  Expanded /\ ~TheRecord.rrule.present /\ TheRecord.start.dateOnly =>
    /\ Len(Occurrences) <= 1
    /\ Len(Occurrences) = 1 <=>
         /\ LocalDate(input.rangeStart) <= TheRecord.start.date
         /\ TheRecord.start.date < LocalDate(input.rangeEnd)
    /\ \A i \in 1..Len(Occurrences) :
         Occurrences[i].isAllDay /\ Occurrences[i].start = TheRecord.start.date

\* C13 witness: an all-day record on the day of a range that starts in the
\* afternoon and ends in the morning is returned
C13_Witness ==
  /\ Expanded /\ ~TheRecord.rrule.present /\ TheRecord.start.dateOnly
  /\ LocalTod(input.rangeStart) > 12 * HourMs
  /\ LocalTod(input.rangeEnd) > 0
  /\ LocalDate(input.rangeStart) = TheRecord.start.date
  /\ Len(Occurrences) = 1

\* the record has an RRULE that the rule parser accepts
RuleApplies == TheRecord.rrule.present /\ StartParses /\ ~RRuleThrows(TheRecord)
\* the start instants of the occurrences returned
OccurrenceStarts == {Occurrences[i].start : i \in 1..Len(Occurrences)}

\* C14: for a record with a valid RRULE the start instants of the
\* occurrences are the instances of the rule anchored at DTSTART, minus the
\* EXDATE instants, plus the RDATE instants, within [rangeStart, rangeEnd]
C14_RuleMinusExdatePlusRdate ==
  Expanded /\ RuleApplies =>
    LET instances == {FromLocal((LocalDate(TheStart.t) + k * TheRecord.rrule.period) * DayMs
                                  + LocalTod(TheStart.t)) :
                        k \in 0..(TheRecord.rrule.count - 1)}
        exdates == {parseICSDate(TheRecord.exdates[i], FALSE).t : i \in 1..Len(TheRecord.exdates)}
        rdates == {parseICSDate(TheRecord.rdates[i], FALSE).t : i \in 1..Len(TheRecord.rdates)}
    IN OccurrenceStarts =
         {t \in (instances \ exdates) \cup rdates :
            input.rangeStart <= t /\ t <= input.rangeEnd}

\* C15: every occurrence of a record with an RRULE has the local hour,
\* minute and second of the record's DTSTART, instances of the rule and of
\* RDATE lines alike
C15_SameLocalTimeOfDay ==
  Expanded /\ RuleApplies =>
    \A i \in 1..Len(Occurrences) :
      LocalTod(Occurrences[i].start) = LocalTod(TheStart.t)

\* the local time of day tod does not exist on the local date of t: the
\* clocks go forward over it
SkippedOn(t, tod) ==
  /\ LocalDate(t) = LocalDate(DstStart)
  /\ LocalTod(DstStart) - HourMs <= tod /\ tod < LocalTod(DstStart)

\* C15 amended: every occurrence of a record with an RRULE has the local
\* time of day of the record's DTSTART, except on the date where the clocks
\* go forward over that time of day, where it is one hour later
C15_SameLocalTimeOfDayUnlessSkipped ==
  Expanded /\ RuleApplies =>
    \A i \in 1..Len(Occurrences) :
      IF SkippedOn(Occurrences[i].start, LocalTod(TheStart.t))
      THEN LocalTod(Occurrences[i].start) = LocalTod(TheStart.t) + HourMs
      ELSE LocalTod(Occurrences[i].start) = LocalTod(TheStart.t)

\* C15 witness: an instance of a daily rule whose DTSTART is at 02:30 is
\* returned on the date the clocks go forward over 02:30
C15_Witness ==
  /\ Expanded /\ RuleApplies
  /\ \E i \in 1..Len(Occurrences) :
       SkippedOn(Occurrences[i].start, LocalTod(TheStart.t))

\* the instant at which an occurrence starts: an all-day occurrence of a
\* record without RRULE carries a date and starts at its local midnight
StartInstant(occ) ==
  IF occ.isAllDay /\ "isRecurring" \notin DOMAIN occ
  THEN LocalMidnight(occ.start) ELSE occ.start

\* C16: every occurrence returned, of recurring and non-recurring records
\* alike, starts inside [rangeStart, rangeEnd)
C16_StartsInsideHalfOpenRange ==
  Expanded =>
    \A i \in 1..Len(Occurrences) :
      /\ input.rangeStart <= StartInstant(Occurrences[i])
      /\ StartInstant(Occurrences[i]) < input.rangeEnd

\* C17: when the RRULE of a record makes the rule parser throw, expandEvent
\* returns what it returns for the record without the RRULE
C17_FallbackEqualsNonRecurring ==
  Expanded /\ TheRecord.rrule.present /\ TheStart.ok /\ RRuleThrows(TheRecord) =>
    /\ ~output.threw
    /\ Occurrences = expandEvent([TheRecord EXCEPT !.rrule = NoRule],
                                 input.rangeStart, input.rangeEnd, now)

\* what the claims about a rebuild speak of: a snapshot is published; the
\* section index published with it; the local calendar date of an occurrence
Published == writer.recent # 0
PublishedIndex == cachedByDay[lastDayBuilt]
InBucket(occ, s) ==
  s \in DOMAIN PublishedIndex /\ \E i \in 1..Len(PublishedIndex[s]) : PublishedIndex[s][i] = occ
Tokens(occ) ==
  LET matches == SectionMatches(occ.summary \o <<" ">> \o occ.description)
  IN {matches[i] : i \in 1..Len(matches)}
OccLocalDate(occ) == LocalDate(StartInstant(occ))

\* C11: after a rebuild the section index holds exactly the occurrences of
\* the recent list that start on the day of the rebuild as a calendar date
\* of Europe/Rome, each in the bucket of each of its section tokens, at
\* every time of day of the rebuild and of the occurrence
C11_IndexIsTodayLocal ==
  Published =>
    \A j \in 1..Len(cachedRecent) : \A s \in Tokens(cachedRecent[j]) :
      InBucket(cachedRecent[j], s) <=> OccLocalDate(cachedRecent[j]) = LocalDate(now)

\* the VEVENT has no DTSTART, or one that does not parse
NoUsableStart(ev) == ~ev.start.present \/ ev.start.garbled
HasUsableStart(ev) == ~NoUsableStart(ev)

\* the recent list that parseICSFileStreaming builds from a sequence of
\* VEVENTs
RECURSIVE RecentOf(_, _)
RecentOf(events, acc) ==
  IF Len(events) = 0 THEN acc.recent
  ELSE RecentOf(Tail(events),
                ParseEvent(acc, events[1], LocalMidnight(LocalDate(now)),
                           LocalMidnight(LocalDate(now)) + WINDOW_DAYS * DayMs,
                           ISODate(now), now))

C20_EndNotBeforeStart ==
  Published =>
    \A j \in 1..Len(cachedRecent) :
      ~cachedRecent[j].isAllDay => cachedRecent[j].end >= cachedRecent[j].start

\* C21: every all-day occurrence of a published snapshot, of whichever
\* branch of expandEvent, has the same date-only value as start and as end,
\* and that value is the calendar date the today index and the section+date
\* query compare
C21_AllDayCarriesDate ==
  Published =>
    \A j \in 1..Len(cachedRecent) :
      cachedRecent[j].isAllDay =>
        /\ cachedRecent[j].start = cachedRecent[j].end
        /\ OccDate(cachedRecent[j]) = OccLocalDate(cachedRecent[j])

\* C22: parseICSDate returns null for an empty value and for a value that is
\* no well-formed date or date-time, and expandEvent returns no occurrence
\* for such a record
C22_UnparseableIsNull ==
  Expanded /\ (~TheRecord.start.present \/ TheRecord.start.garbled) =>
    /\ ~TheStart.ok
    /\ Occurrences = <<>>

\* GET /events has answered 200
Answered == resp.route = "events" /\ resp.status = 200
\* the text in which a section is looked up
TextOf(occ) == occ.summary \o <<" ">> \o occ.description

\* C23: GET /events with section and date returns the occurrences of
\* cachedRecent, in its order, whose start is on date as a calendar date of
\* Europe/Rome and whose summary + ' ' + description contains section
C23_SectionDateQuery ==
  Answered /\ resp.section # NoSection /\ resp.date # NoDay =>
    LET Wanted(occ) == OccLocalDate(occ) = resp.date /\ Includes(TextOf(occ), resp.section)
    IN resp.body = SelectSeq(cachedRecent, Wanted)

\* C24: GET /events with a section only returns the bucket of the section
\* in the index of the current day, or nothing, and every occurrence
\* returned starts on the calendar day on which the query is answered
C24_SectionQueryIsOfToday ==
  Answered /\ resp.section # NoSection /\ resp.date = NoDay =>
    \A i \in 1..Len(resp.body) : OccLocalDate(resp.body[i]) = LocalDate(now)

\* the periodic refreshes that are scheduled or running: the timer of
\* backgroundRefresh, the backgroundRefresh that awaits its rebuild, and
\* buildInitialCache, which schedules the first one at its end
PeriodicRunning ==
  LET periodic == {c \in Calls : c.trigger \in {"initial", "refresh"}}
  IN BagCardinality([c \in periodic |-> calls[c]])
PeriodicPending == (IF timer # NoTimer THEN 1 ELSE 0) + PeriodicRunning

\* C25: whatever the outcome of every rebuild, exactly one periodic refresh
\* is scheduled or running at any time, and a scheduled one leads to a
\* rebuild attempt of backgroundRefresh without any query (as long as the
\* clock and the number of rebuilds stay within MaxTime and MaxStarted)
C25_PeriodicRefreshNeverStops ==
  /\ [](PeriodicPending = 1)
  /\ (timer # NoTimer /\ timer <= MaxTime /\ CanStart)
       ~> (\E c \in Calls : c.trigger = "refresh")

\* C25 witness: the initial build has failed and the backgroundRefresh that
\* was scheduled after it is running
C25_Witness ==
  /\ cacheStatus = "error"
  /\ writer.recent = 0
  /\ \E c \in Calls : c.trigger = "refresh"

\* C26: a GET /events that starts a staleness rebuild answers in the same
\* step, from the snapshot that is published when it arrives: the cache is
\* as it was, the body is the one computed from it, and the rebuild it
\* started has only sent its download request
C26_TriggeringRequestDoesNotWait ==
  [][resp'.route = "events" /\ started' # started =>
       /\ resp'.status = 200
       /\ resp'.body = EventsBody(resp'.section, resp'.date)
       /\ cache' = cache
       /\ \E d \in BagToSet(calls') :
            /\ d.trigger = "query" /\ d.pc = "request"
            /\ calls' = calls (+) SetToBag({d})]_vars

\* C26 witness: a query has been answered with the occurrences of the
\* published snapshot while the staleness rebuild has not been answered
C26_Witness ==
  /\ Answered /\ Len(resp.body) > 0
  /\ IsStale
  /\ \E c \in Calls : c.trigger = "query" /\ c.pc = "request"

\* the lines of a VEVENT with every continuation line joined to the line
\* before it: its text, with \n resolved, is appended to that line's value
RECURSIVE Unfolded(_, _)
Unfolded(lines, done) ==
  IF Len(lines) = 0 THEN done
  ELSE IF ~lines[1].continuation THEN Unfolded(Tail(lines), Append(done, lines[1]))
  ELSE IF Len(done) = 0 THEN Unfolded(Tail(lines), done)
  ELSE Unfolded(Tail(lines),
                [done EXCEPT ![Len(done)].text = @ \o unescapePair(lines[1].text, "n", "\n")])

\* C27: the values captured from a VEVENT are those of its property lines
\* with the continuation lines that follow each joined to it, also when the
\* value of the first line is empty, and for EXDATE and RDATE entries
C27_ContinuationLinesJoined ==
  output.done =>
    output.value = ReadLines(NewReader, Unfolded(input, <<>>))

\* the number of times x stands in seq
Count(seq, x) == Cardinality({i \in 1..Len(seq) : seq[i] = x})

\* C28: in the section index published by a rebuild, an occurrence that the
\* index takes as one of today stands in the bucket of every distinct token
\* of its summary and description, and in no bucket more often than in the
\* recent list, also when a token stands several times in its text
C28_OncePerToken ==
  Published =>
    /\ \A j \in 1..Len(cachedRecent) :
         OccDate(cachedRecent[j]) = lastDayBuilt =>
           \A s \in Tokens(cachedRecent[j]) :
             /\ s \in DOMAIN PublishedIndex
             /\ Count(PublishedIndex[s], cachedRecent[j]) >= 1
    /\ \A s \in DOMAIN PublishedIndex : \A i \in 1..Len(PublishedIndex[s]) :
         Count(PublishedIndex[s], PublishedIndex[s][i])
           <= Count(cachedRecent, PublishedIndex[s][i])

\* C28 witness: an occurrence of today whose text holds the token 3B three
\* times and the token 4A once is published, in both buckets
C28_Witness ==
  /\ Published
  /\ \E j \in 1..Len(cachedRecent) :
       LET matches == SectionMatches(TextOf(cachedRecent[j])) IN
       /\ Count(matches, <<"3", "B">>) = 3
       /\ Count(matches, <<"4", "A">>) = 1
       /\ InBucket(cachedRecent[j], <<"3", "B">>)
       /\ InBucket(cachedRecent[j], <<"4", "A">>)
\* the VEVENTs of the source that have a UID have different ones
UidsDiffer ==
  \A i, j \in 1..Len(source) :
    i < j /\ source[i].uid # "" /\ source[j].uid # "" => source[i].uid # source[j].uid

\* C29: in a published snapshot of a source whose UIDs differ no two
\* occurrences have the same id: neither two instances of one recurring
\* VEVENT, from its rule or from its RDATEs, nor the occurrences of two
\* VEVENTs without UID
C29_IdsDiffer ==
  Published /\ UidsDiffer =>
    \A i, j \in 1..Len(cachedRecent) :
      i < j => cachedRecent[i].id # cachedRecent[j].id
\* the word that starts at position i of text: the characters up to the
\* next whitespace or the end of text
WordAt(text, i) ==
  LET rest == SubSeq(text, i, Len(text))
  IN SubSeq(rest, 1, RunOf(rest, ClassChar \cup {"a", "."}))

\* a marker stands at position i of text: CLASSE, whitespace, and a word of
\* upper-case letters and digits, which may be the last of text
MarkerAt(text, i) ==
  /\ i + Len(Marker) - 1 <= Len(text)
  /\ SubSeq(text, i, i + Len(Marker) - 1) = Marker
  /\ LET rest == SubSeq(text, i + Len(Marker), Len(text))
         w == RunOf(rest, Whitespace)
         word == WordAt(rest, w + 1)
     IN w >= 1 /\ Len(word) >= 1 /\ \A k \in 1..Len(word) : word[k] \in ClassChar

\* the token of the marker at position i
TokenAt(text, i) ==
  LET rest == SubSeq(text, i + Len(Marker), Len(text))
  IN WordAt(rest, RunOf(rest, Whitespace) + 1)

\* C30: extractClassFromSummary returns the token of the first marker of the
\* summary, wherever the token stands, also at the very end of the summary,
\* and null when the summary has no marker
C30_FirstClassMarker ==
  output.done =>
    LET at == {i \in 1..Len(input) : MarkerAt(input, i)}
    IN IF at = {} THEN output.value = NoMatch
       ELSE output.value = Match(TokenAt(input, CHOOSE i \in at : \A k \in at : i <= k))
\* C32: downloadICS makes at most DOWNLOAD_TRIES attempts, waits before each
\* retry, throws only after the last attempt has failed, makes no attempt
\* after one that succeeded, and when it returns the file it names is there
C32_DownloadReturnsFileOrThrows ==
  [][\A c \in Calls :
       /\ c.i < DOWNLOAD_TRIES
       /\ Retry(c) => c.i + 1 < DOWNLOAD_TRIES
       /\ \A d \in BagToSet(calls') :
            d.pc = "request" /\ d.i > 0 =>
              \E w \in Calls :
                /\ w.trigger = d.trigger /\ w.tempFile = d.tempFile
                /\ \/ w.pc = "request" /\ w.i = d.i
                   \/ w.pc = "waiting" /\ w.i + 1 = d.i /\ Due(w.waitUntil)
       /\ DownloadFail(c) /\ ended'.failure = "download" => c.i = DOWNLOAD_TRIES - 1
       /\ WriteFinish(c) => c.tempFile \in files]_vars
\* C34: when a rebuild attempt of any trigger completes, cacheStatus tells
\* its outcome: 'ready' after a success, and 'error' only after a failure
C34_StatusOfLatestAttempt ==
  ended.trigger # "none" =>
    /\ ended.failure = "none" => cacheStatus = "ready"
    /\ cacheStatus = "error" => ended.failure # "none"
\* C35: cacheStatus is 'building', 'ready' or 'error'; it is 'building' only
\* while the initial build is the only attempt and has not finished, with
\* nothing published, and never becomes 'building' again; it is 'ready'
\* only when a rebuild has succeeded
C35_StatusLifeCycle ==
  /\ [](cacheStatus \in {"building", "ready", "error"})
  /\ [](cacheStatus = "building" =>
          /\ \E c \in Calls : c.trigger = "initial"
          /\ started = 0
          /\ recentBuiltAt = 0 /\ cachedRecent = <<>> /\ writer.recent = 0)
  /\ [](cacheStatus = "ready" => writer.recent # 0)
  /\ [][cacheStatus' = "building" => cacheStatus = "building"]_vars
  /\ [][ended'.trigger # "none" => cacheStatus' # "building"]_vars

\* C35 witness: after a published snapshot a backgroundRefresh has failed,
\* and the status is 'error'
C35_Witness ==
  /\ ended.trigger = "refresh" /\ ended.failure # "none"
  /\ writer.recent # 0 /\ cacheStatus = "error"
\* line i of the file is read inside an event: a BEGIN:VEVENT stands before
\* it and no END:VEVENT between the two
InsideEvent(lines, i) ==
  \E b \in 1..(i - 1) :
    /\ lines[b] = BeginVevent
    /\ \A k \in (b + 1)..(i - 1) : lines[k] # EndVevent

\* C36: a continuation line that follows, inside an event, a property the
\* parser does not know, an EXDATE or RDATE line, a line without a colon or
\* BEGIN:VEVENT changes no field of the current event record
C36_StrayContinuationChangesNothing ==
  output.done =>
    \A i \in 2..Len(input) :
      /\ input[i].continuation
      /\ InsideEvent(input, i)
      /\ ~input[i - 1].continuation
      /\ input[i - 1].name \notin DOMAIN FieldOf
      => output.value[i].currentEvent = output.value[i - 1].currentEvent

\* C36 witness: after a captured SUMMARY the continuation line of an EXDATE
\* line has been read
C36_Witness ==
  /\ output.done
  /\ \E i \in 3..Len(input) :
       /\ input[i].continuation /\ input[i - 1].name = "EXDATE"
       /\ output.value[i].currentEvent.summary = <<"a">>
       /\ output.value[i].currentEvent.exdates = << <<"3">> >>
\* the record of the event that the END:VEVENT at line e closes: what the
\* lines since the most recent BEGIN:VEVENT hold
RecordEndedAt(lines, e) ==
  LET b == CHOOSE k \in 1..(e - 1) :
             lines[k] = BeginVevent /\ \A j \in (k + 1)..(e - 1) : lines[j] # BeginVevent
  IN ReadLines(NewReader, SubSeq(lines, b + 1, e - 1))

C31_PreviousCacheUntilReplaced ==
  [][(fetches' # {} \/ \E f \in fetches : KeyedFail(f)) =>
       cachedEvents' = cachedEvents]_vars

\* C38: every response of the day-keyed variant holds each event of its day
\* that matches the section exactly once, and when no fetch is in flight no
\* bucket holds an entry more than once
C38_EachEventOnce ==
  /\ answer.status = 200 =>
       \A i \in 1..Len(source) :
         /\ KeyedDate(source[i]) = answer.today
         /\ \E k \in 1..Len(SectionMatches(source[i].summary \o <<" ">> \o source[i].description)) :
              SectionMatches(source[i].summary \o <<" ">> \o source[i].description)[k]
                = answer.section
         => Count(answer.body, KeyedEntry(source[i], answer.section)) = 1
  /\ fetches = {} =>
       \A section \in DOMAIN cachedEvents : \A i \in 1..Len(cachedEvents[section]) :
         Count(cachedEvents[section], cachedEvents[section][i]) = 1

\* the calendar event an entry of cachedRecent stands for: the entry without
\* its id
CalendarEvent(e) ==
  [summary |-> e.summary, description |-> e.description, start |-> e.start,
   end |-> e.end, isAllDay |-> e.isAllDay]

\* C39: over an unchanged source, whatever the order of the rebuilds and of
\* the steps of the realtime checks, no two realtime notifications to the
\* same token include the same calendar event
C39_NotifiedAtMostOnce ==
  \A i \in 1..Len(sent) : \A j \in (i + 1)..Len(sent) :
    sent[i].token = sent[j].token =>
      \A a \in 1..Len(sent[i].events) : \A b \in 1..Len(sent[j].events) :
        CalendarEvent(sent[i].events[a]) # CalendarEvent(sent[j].events[b])

\* the digest time of a token
DigestTimeOf(token) ==
  LET i == CHOOSE i \in 1..Len(ExpoTokens) : ExpoTokens[i].token = token
  IN ExpoTokens[i].digestTime

\* C33: whenever a realtime notification is handed over for a token whose
\* digestTime is 06:00, 07:00 or 08:00, the digest for that hour has run
\* that day
C33_NoRealtimeBeforeOwnDigest ==
  [][\A i \in (Len(sent) + 1)..Len(sent') :
       sent'[i].type = "realtime" /\ DigestTimeOf(sent'[i].token) \in {6, 7, 8}
         => DigestTimeOf(sent'[i].token) \in digestRuns]_vars

====
